---- MODULE Spec2Model ----
(***************************************************************************)
(* Porcupine linearizability checker: the single-partition search          *)
(* (checkSingle), the partition-parallel driver (checkParallel) and the    *)
(* entry normalisation (makeEntries, makeLinkedEntries), checked with the  *)
(* register model of the test suite.                                       *)
(***************************************************************************)
EXTENDS Integers, Sequences, FiniteSets, TLC

\* ------------------------------------------------------------------ bounds
MaxOps == 3          \* operations in a single-partition history
MaxTime == 2         \* timestamps range over 0..MaxTime
MaxVal == 1          \* register values range over 0..MaxVal
MaxParts == 2        \* partitions of a multi-partition history
MaxPartOps == 1      \* operations per partition of a multi-partition history
MaxTimedOps == 2     \* operations in a single-partition history checked with a timeout

\* ------------------------------------------------------------------ constants
NIL == -1            \* the nil pointer
WordBits == 64       \* bits per bitset word
callEntry == FALSE
returnEntry == TRUE

\* ------------------------------------------------------------------ helpers
Range(s) == {s[k] : k \in 1..Len(s)}

Last(s) == s[Len(s)]

Front(s) == SubSeq(s, 1, Len(s) - 1)

RECURSIVE SeqsOver(_, _)
\* all sequences over S of length exactly k
SeqsOver(S, k) == IF k = 0 THEN {<<>>}
                  ELSE {Append(s, x) : s \in SeqsOver(S, k - 1), x \in S}

\* all permutations (as sequences) of the finite set S
PermSeqs(S) == {p \in [1..Cardinality(S) -> S] : \A x \in S : \E k \in DOMAIN p : p[k] = x}

\* ------------------------------------------------------------------ register model
\* registerInput: op = FALSE is put(value), op = TRUE is get
registerInit == 0

registerStep(state, regInput, output) ==
    IF regInput.op = FALSE
    THEN [ok |-> TRUE, state |-> regInput.value]
    ELSE [ok |-> (output = state), state |-> state]

\* intState.Clone returns the value itself
StateClone(s) == s

\* intState.Equals
StateEquals(a, b) == a = b

\* ------------------------------------------------------------------ bitset
\* a bitset is a sequence of 64-bit words; a word is kept as the set of the
\* positions (0..63) of its one-bits
newBitset(bits) ==
    LET extra == IF bits % WordBits # 0 THEN 1 ELSE 0
        chunks == (bits \div WordBits) + extra
    IN [k \in 1..chunks |-> {}]

bitsetClone(b) == [k \in 1..Len(b) |-> b[k]]

bitsetMajor(pos) == (pos \div WordBits) + 1

bitsetMinor(pos) == pos % WordBits

bitsetSet(b, pos) == [b EXCEPT ![bitsetMajor(pos)] = @ \cup {bitsetMinor(pos)}]

\* mutant: clear leaves the bit set
bitsetClearNothing(b, pos) == b

bitsetClear(b, pos) == [b EXCEPT ![bitsetMajor(pos)] = @ \ {bitsetMinor(pos)}]

bitsetGet(b, pos) == bitsetMinor(pos) \in b[bitsetMajor(pos)]

bitsetEquals(a, b) == Len(a) = Len(b) /\ \A k \in 1..Len(a) : a[k] = b[k]

RECURSIVE bitsetPopcnt(_)
bitsetPopcnt(b) == IF Len(b) = 0 THEN 0 ELSE Cardinality(b[1]) + bitsetPopcnt(Tail(b))

\* a deterministic hash of the words that agrees with equals (and collides)
bitsetHash(b) == bitsetPopcnt(b)

\* the ids whose bit is set
BitsOf(b) == UNION {{((k - 1) * WordBits) + m : m \in b[k]} : k \in 1..Len(b)}

\* ------------------------------------------------------------------ entries
\* an Operation of the register model
Operation(clientId, input, call, output, return) ==
    [ClientId |-> clientId, Input |-> input, Call |-> call, Output |-> output, Return |-> return]

\* mutant: entries with equal timestamps are left in any order
byTimeLessNoTieBreak(a, b) == a.time < b.time

byTimeLess(a, b) ==
    IF a.time # b.time
    THEN a.time < b.time
    ELSE a.kind = callEntry /\ b.kind = returnEntry

RECURSIVE SortOutcomes(_)
\* sort.Sort(byTime(entries)) is not stable: every arrangement of the entries
\* in which no entry is Less than an earlier one is a possible outcome
SortOutcomes(S) ==
    IF S = {} THEN {<<>>}
    ELSE LET minimal == {e \in S : \A f \in S : ~byTimeLess(f, e)}
         IN UNION {{<<e>> \o rest : rest \in SortOutcomes(S \ {e})} : e \in minimal}

RECURSIVE appendEntries(_, _)
\* the loop of makeEntries: the k-th operation gets id k-1
appendEntries(history, id) ==
    IF id = Len(history) THEN <<>>
    ELSE LET elem == history[id + 1]
         IN << [kind |-> callEntry, value |-> [input |-> elem.Input], id |-> id,
                time |-> elem.Call, clientId |-> elem.ClientId],
               [kind |-> returnEntry, value |-> [output |-> elem.Output], id |-> id,
                time |-> elem.Return, clientId |-> elem.ClientId] >>
            \o appendEntries(history, id + 1)

\* mutant: the entries are left in the order they were appended in
makeEntriesUnsorted(history) == {appendEntries(history, 0)}

\* the possible results of makeEntries(history); an entry's value (an any) is
\* kept boxed as [input |-> i] or [output |-> o]
makeEntries(history) == SortOutcomes(Range(appendEntries(history, 0)))

RECURSIVE entriesOutcomes(_)
\* the possible values of l in checkOperations: makeEntries of every partition
entriesOutcomes(parts) ==
    IF parts = << >> THEN {<< >>}
    ELSE {<<h>> \o rest : h \in makeEntries(Head(parts)), rest \in entriesOutcomes(Tail(parts))}

\* ------------------------------------------------------------------ ribbon
\* nodes live at addresses: the node of entries[k] at k, the head sentinel at 0
HEAD == 0

\* the type assertions e.value.(I) and e.value.(O)
nodeValueAsInput(e) == e.value.input

nodeValueAsOutput(e) == e.value.output

blankNode == [value |-> [none |-> NIL], match |-> NIL, id |-> 0, next |-> NIL, prev |-> NIL]

\* mutant: the nodes around n get no link to n
insertBeforeOneWay(nodes, n, mark) ==
    IF mark # NIL
    THEN IF nodes[mark].prev # NIL
         THEN [nodes EXCEPT ![n].next = mark, ![n].prev = nodes[mark].prev]
         ELSE [nodes EXCEPT ![n].next = mark]
    ELSE nodes

insertBefore(nodes, n, mark) ==
    IF mark # NIL
    THEN LET beforeMark == nodes[mark].prev
             n1 == [nodes EXCEPT ![mark].prev = n, ![n].next = mark]
         IN IF beforeMark # NIL
            THEN [n1 EXCEPT ![n].prev = beforeMark, ![beforeMark].next = n]
            ELSE n1
    ELSE nodes

RECURSIVE length(_, _)
length(nodes, n) == IF n = NIL THEN 0 ELSE 1 + length(nodes, nodes[n].next)

RECURSIVE linkEntries(_, _, _, _, _)
\* the loop of makeLinkedEntries, from i = len(entries) down to 1
linkEntries(entries, i, nodes, root, match) ==
    IF i = 0 THEN [nodes |-> nodes, root |-> root]
    ELSE LET elem == entries[i]
         IN IF elem.kind = returnEntry
            THEN LET made == [nodes EXCEPT ![i] =
                                [blankNode EXCEPT !.value = elem.value, !.match = NIL, !.id = elem.id]]
                 IN linkEntries(entries, i - 1, insertBefore(made, i, root), i,
                                [match EXCEPT ![elem.id] = i])
            ELSE LET made == [nodes EXCEPT ![i] =
                                [blankNode EXCEPT !.value = elem.value,
                                                  !.match = match[elem.id], !.id = elem.id]]
                 IN linkEntries(entries, i - 1, insertBefore(made, i, root), i, match)

makeLinkedEntries(entries) ==
    linkEntries(entries, Len(entries),
                [k \in 0..Len(entries) |-> blankNode], NIL,
                [id \in {entries[k].id : k \in 1..Len(entries)} |-> NIL])

lift(nodes, entry) ==
    LET n1 == [nodes EXCEPT ![nodes[entry].prev].next = nodes[entry].next]
        n2 == [n1 EXCEPT ![n1[entry].next].prev = n1[entry].prev]
        match == n2[entry].match
        n3 == [n2 EXCEPT ![n2[match].prev].next = n2[match].next]
    IN IF n3[match].next # NIL
       THEN [n3 EXCEPT ![n3[match].next].prev = n3[match].prev]
       ELSE n3

\* mutant: the node after the return keeps pointing past it
unliftForgetsNextPrev(nodes, entry) ==
    LET match == nodes[entry].match
        n1 == [nodes EXCEPT ![nodes[match].prev].next = match]
        n3 == [n1 EXCEPT ![n1[entry].prev].next = entry]
    IN [n3 EXCEPT ![n3[entry].next].prev = entry]

unlift(nodes, entry) ==
    LET match == nodes[entry].match
        n1 == [nodes EXCEPT ![nodes[match].prev].next = match]
        n2 == IF n1[match].next # NIL
              THEN [n1 EXCEPT ![n1[match].next].prev = match]
              ELSE n1
        n3 == [n2 EXCEPT ![n2[entry].prev].next = entry]
    IN [n3 EXCEPT ![n3[entry].next].prev = entry]

RECURSIVE listFrom(_, _)
\* the node addresses reachable from n via next, in order
listFrom(nodes, n) == IF n = NIL THEN <<>> ELSE <<n>> \o listFrom(nodes, nodes[n].next)

\* ------------------------------------------------------------------ checkSingle
\* a cache is a map from a bitset hash to a list of cacheEntry
cacheBucket(cache, h) == IF h \in DOMAIN cache THEN cache[h] ELSE <<>>

\* mutant: a hit needs an equal bitset only, whatever the state
cacheContainsAnyState(cache, entry) ==
    LET bucket == cacheBucket(cache, bitsetHash(entry.linearized))
    IN \E k \in 1..Len(bucket) : bitsetEquals(entry.linearized, bucket[k].linearized)

\* mutant: a hit needs an equal hash and an equal state only
cacheContainsByHash(cache, entry) ==
    LET bucket == cacheBucket(cache, bitsetHash(entry.linearized))
    IN \E k \in 1..Len(bucket) : StateEquals(entry.state, bucket[k].state)

cacheContains(cache, entry) ==
    LET bucket == cacheBucket(cache, bitsetHash(entry.linearized))
    IN \E k \in 1..Len(bucket) :
          /\ bitsetEquals(entry.linearized, bucket[k].linearized)
          /\ StateEquals(entry.state, bucket[k].state)

cacheAppend(cache, h, entry) ==
    [x \in DOMAIN cache \cup {h} |->
        IF x = h THEN Append(cacheBucket(cache, h), entry) ELSE cache[x]]

RECURSIVE idsOfFrames(_, _)
\* the ids of the first k frames of a calls stack, in push order
idsOfFrames(w, k) ==
    IF k = 0 THEN << >>
    ELSE Append(idsOfFrames(w, k - 1), w.nodes[w.calls[k].entry].id)

\* the ids of the frames of a calls stack, in push order
callIds(w) == idsOfFrames(w, Len(w.calls))

\* the state of checkSingle when it first reaches the top of its loop.
\* why and maxDepth are history variables: why a finished search returned,
\* and the largest size the calls stack had while holding each id.
checkSingleInit(history, computePartial) ==
    LET linked == makeLinkedEntries(history)
        n == length(linked.nodes, linked.root) \div 2
        withHead == insertBefore([linked.nodes EXCEPT ![HEAD] = [blankNode EXCEPT !.id = -1]],
                                 HEAD, linked.root)
    IN [pc |-> "loop",
        nodes |-> withHead,
        entry |-> linked.root,
        n |-> n,
        linearized |-> newBitset(n),
        cache |-> << >>,
        calls |-> << >>,
        longest |-> [k \in 1..n |-> NIL],
        heap |-> << >>,
        state |-> registerInit,
        computePartial |-> computePartial,
        ok |-> FALSE,
        why |-> "running",
        maxDepth |-> [k \in 1..n |-> 0]]

\* the loop condition: headEntry.next != nil
loopCond(w) == w.nodes[HEAD].next # NIL

atCall(w) == w.nodes[w.entry].match # NIL

\* model.Step(state.Clone(), input of entry, output of its match)
stepAt(w) ==
    registerStep(StateClone(w.state), nodeValueAsInput(w.nodes[w.entry]),
                 nodeValueAsOutput(w.nodes[w.nodes[w.entry].match]))

\* mutant: the bitset of the cache entry lacks the id of the call
newCacheEntryOldBits(w) ==
    [linearized |-> bitsetClone(w.linearized), state |-> stepAt(w).state]

newCacheEntry(w) ==
    [linearized |-> bitsetSet(bitsetClone(w.linearized), w.nodes[w.entry].id),
     state |-> stepAt(w).state]


\* mutant: the result of Step is not consulted
acceptsIgnoringStep(w) == ~cacheContains(w.cache, newCacheEntry(w))

\* mutant: the cache is not consulted
acceptsIgnoringCache(w) == stepAt(w).ok

\* the call at the scan pointer can be linearized here
accepts(w) == stepAt(w).ok /\ ~cacheContains(w.cache, newCacheEntry(w))

\* return false, longest: the kill flag was observed at the top of the loop
doKilled(w) == [w EXCEPT !.pc = "returned", !.ok = FALSE, !.why = "killed"]

\* the call is accepted: cache it, push the frame, lift the pair, rescan
doAccept(w) ==
    LET ce == newCacheEntry(w)
        hash == bitsetHash(ce.linearized)
        calls == Append(w.calls, [entry |-> w.entry, state |-> w.state])
        nodes == lift(w.nodes, w.entry)
        depth == Len(calls)
    IN [w EXCEPT !.cache = cacheAppend(w.cache, hash, ce),
                 !.calls = calls,
                 !.state = ce.state,
                 !.linearized = bitsetSet(w.linearized, w.nodes[w.entry].id),
                 !.nodes = nodes,
                 !.entry = nodes[HEAD].next,
                 !.maxDepth = [k \in DOMAIN w.maxDepth |->
                                 IF \E j \in 1..depth : nodes[calls[j].entry].id = k - 1
                                 THEN IF depth > w.maxDepth[k] THEN depth ELSE w.maxDepth[k]
                                 ELSE w.maxDepth[k]]]

\* mutant: the scan moves on to the node after a return that follows the call
doSkipPastReturn(w) ==
    LET nx == w.nodes[w.entry].next
    IN [w EXCEPT !.entry = IF w.nodes[nx].match = NIL /\ w.nodes[nx].next # NIL
                           THEN w.nodes[nx].next ELSE nx]

\* mutant: the scan restarts at the head of the list instead of moving on
doSkipRestarts(w) == [w EXCEPT !.entry = w.nodes[HEAD].next]

\* the call is rejected by Step or already cached: move on
doSkip(w) == [w EXCEPT !.entry = w.nodes[w.entry].next]

\* return false, longest: a return node with an empty calls stack
doExhausted(w) == [w EXCEPT !.pc = "returned", !.ok = FALSE, !.why = "exhausted"]

\* mutant: the snapshot leaves out the top frame of the calls stack
recordLongestDropTop(w) ==
    LET callsLen == Len(w.calls)
        ids == callIds(w)
        grows(id) == w.longest[id + 1] = NIL \/ callsLen > Len(w.heap[w.longest[id + 1]])
        addr == Len(w.heap) + 1
    IN IF w.computePartial /\ \E k \in 1..callsLen : grows(ids[k])
       THEN [w EXCEPT !.heap = Append(w.heap, Front(ids)),
                      !.longest = [i \in DOMAIN w.longest |->
                                     IF (\E k \in 1..callsLen : ids[k] = i - 1) /\ grows(i - 1)
                                     THEN addr ELSE w.longest[i]]]
       ELSE w

\* mutant: longest[i] is set once and never replaced by a longer sequence
recordLongestOnce(w) ==
    LET callsLen == Len(w.calls)
        ids == callIds(w)
        grows(id) == w.longest[id + 1] = NIL
        addr == Len(w.heap) + 1
    IN IF w.computePartial /\ \E k \in 1..callsLen : grows(ids[k])
       THEN [w EXCEPT !.heap = Append(w.heap, ids),
                      !.longest = [i \in DOMAIN w.longest |->
                                     IF (\E k \in 1..callsLen : ids[k] = i - 1) /\ grows(i - 1)
                                     THEN addr ELSE w.longest[i]]]
       ELSE w

\* mutant: every longest[i] that grows gets a sequence of its own
recordLongestPerId(w) ==
    LET callsLen == Len(w.calls)
        ids == callIds(w)
        grows(id) == w.longest[id + 1] = NIL \/ callsLen > Len(w.heap[w.longest[id + 1]])
        base == Len(w.heap)
    IN IF w.computePartial /\ \E k \in 1..callsLen : grows(ids[k])
       THEN [w EXCEPT !.heap = w.heap \o [i \in DOMAIN w.longest |-> ids],
                      !.longest = [i \in DOMAIN w.longest |->
                                     IF (\E k \in 1..callsLen : ids[k] = i - 1) /\ grows(i - 1)
                                     THEN base + i ELSE w.longest[i]]]
       ELSE w

\* the update of longest in the backtrack step; seq is allocated once, lazily,
\* at the next free address of the heap
recordLongest(w) ==
    LET callsLen == Len(w.calls)
        ids == callIds(w)
        grows(id) == w.longest[id + 1] = NIL \/ callsLen > Len(w.heap[w.longest[id + 1]])
        addr == Len(w.heap) + 1
    IN IF w.computePartial /\ \E k \in 1..callsLen : grows(ids[k])
       THEN [w EXCEPT !.heap = Append(w.heap, ids),
                      !.longest = [i \in DOMAIN w.longest |->
                                     IF (\E k \in 1..callsLen : ids[k] = i - 1) /\ grows(i - 1)
                                     THEN addr ELSE w.longest[i]]]
       ELSE w

\* mutant: the pop does not restore the saved state
doBacktrackKeepsState(w) ==
    LET r == recordLongest(w)
        callsTop == Last(r.calls)
        entry == callsTop.entry
        nodes == unlift(r.nodes, entry)
    IN [r EXCEPT !.linearized = bitsetClear(r.linearized, r.nodes[entry].id),
                 !.calls = Front(r.calls),
                 !.nodes = nodes,
                 !.entry = nodes[entry].next]

\* mutant: the scan pointer stays at the popped call
doBacktrackStaysAtCall(w) ==
    LET r == recordLongest(w)
        callsTop == Last(r.calls)
        entry == callsTop.entry
        nodes == unlift(r.nodes, entry)
    IN [r EXCEPT !.state = callsTop.state,
                 !.linearized = bitsetClear(r.linearized, r.nodes[entry].id),
                 !.calls = Front(r.calls),
                 !.nodes = nodes,
                 !.entry = entry]

\* a return node with a non-empty calls stack: record longest, pop and unlift
doBacktrack(w) ==
    LET r == recordLongest(w)
        callsTop == Last(r.calls)
        entry == callsTop.entry
        nodes == unlift(r.nodes, entry)
    IN [r EXCEPT !.state = callsTop.state,
                 !.linearized = bitsetClear(r.linearized, r.nodes[entry].id),
                 !.calls = Front(r.calls),
                 !.nodes = nodes,
                 !.entry = nodes[entry].next]

\* mutant: every longest[i] gets a copy of its own
doCompleteCopies(w) ==
    LET base == Len(w.heap)
    IN [w EXCEPT !.heap = w.heap \o [i \in DOMAIN w.longest |-> callIds(w)],
                 !.longest = [i \in DOMAIN w.longest |-> base + i],
                 !.pc = "returned", !.ok = TRUE, !.why = "complete"]

\* the list is empty: calls is the complete linearization
doComplete(w) ==
    LET addr == Len(w.heap) + 1
    IN [w EXCEPT !.heap = Append(w.heap, callIds(w)),
                 !.longest = [i \in DOMAIN w.longest |-> addr],
                 !.pc = "returned", !.ok = TRUE, !.why = "complete"]

\* one pass of checkSingle from the top of its loop, reading kill once
checkSingleStep(w, kill) ==
    IF ~loopCond(w) THEN doComplete(w)
    ELSE IF kill # 0 THEN doKilled(w)
    ELSE IF atCall(w) THEN (IF accepts(w) THEN doAccept(w) ELSE doSkip(w))
    ELSE IF Len(w.calls) = 0 THEN doExhausted(w)
    ELSE doBacktrack(w)

RECURSIVE checkSingleRun(_)
\* checkSingle run to its return with the kill flag never set
checkSingleRun(w) == IF w.pc # "loop" THEN w ELSE checkSingleRun(checkSingleStep(w, 0))

\* ------------------------------------------------------------------ state
VARIABLES
    partitions,   \* model.Partition(history): per partition, its operations
    events,       \* model.PartitionEvent(history): per partition, its events
    history,      \* checkParallel's history: per partition, its entries
    computeInfo,  \* verbose
    timeout,      \* the timeout argument; 0 is unlimited
    workers,      \* per partition, the state of its checkSingle goroutine
    results,      \* the buffered results channel
    longest,      \* checkParallel's longest: per partition, the array its worker stored
    kill,         \* the cancel flag
    timeoutChan,  \* TRUE when time.After armed the timeout channel
    dpc,          \* where checkParallel is: "select", "after", "done"
    ok, timedOut, count,
    result, info, \* what checkParallel returns
    folded        \* history variable: the workers whose result was folded into ok

vars == <<partitions, events, history, computeInfo, timeout, workers, results, longest, kill,
          timeoutChan, dpc, ok, timedOut, count, result, info, folded>>

inputVars == <<partitions, events, history, computeInfo, timeout, timeoutChan>>

\* ------------------------------------------------------------------ inputs
Times == 0..MaxTime

\* put(v) over [c, r]
putOperation(v, c, r) == Operation(0, [op |-> FALSE, value |-> v], c, 0, r)

\* get -> v over [c, r]
getOperation(v, c, r) == Operation(0, [op |-> TRUE, value |-> 0], c, v, r)

\* the operations of a well-formed history: Call <= Return
WellFormedOps ==
    {o \in {putOperation(v, c, r) : v \in 1..MaxVal, c \in Times, r \in Times}
           \cup {getOperation(v, c, r) : v \in 0..MaxVal, c \in Times, r \in Times} :
        o.Call <= o.Return}

\* an arbitrary total order on operations
opRank(o) ==
    (((IF o.Input.op THEN MaxVal + 1 + o.Output ELSE o.Input.value) * (MaxTime + 1)) + o.Call)
        * (MaxTime + 1) + o.Return

RECURSIVE RankedSeqs(_, _)
\* the sequences over S of length k whose ranks never decrease: one history
\* per multiset of operations (the others differ from it in the ids only)
RankedSeqs(S, k) ==
    IF k = 0 THEN {<< >>}
    ELSE {q \in {Append(s, x) : s \in RankedSeqs(S, k - 1), x \in S} :
            k = 1 \/ opRank(q[k - 1]) <= opRank(q[k])}

\* the timestamps of a history are 0..m for some m: one history per relative
\* timing (the checker only compares timestamps)
CompactTimes(ops) ==
    LET used == {ops[k].Call : k \in 1..Len(ops)} \cup {ops[k].Return : k \in 1..Len(ops)}
    IN \A t \in used : t = 0 \/ (t - 1) \in used

Histories(maxOps) ==
    {ops \in UNION {RankedSeqs(WellFormedOps, k) : k \in 0..maxOps} : CompactTimes(ops)}

\* one partition (the default partitioner); with a timeout for short histories
SingleInputs ==
    {[parts |-> <<ops>>, verbose |-> v, timeout |-> 0] :
        ops \in Histories(MaxOps), v \in BOOLEAN}
    \cup {[parts |-> <<ops>>, verbose |-> v, timeout |-> 1] :
        ops \in Histories(MaxTimedOps), v \in BOOLEAN}

\* the operations of the partitions of a partitioned history: instantaneous
PartOps == {o \in WellFormedOps : o.Call = 0 /\ o.Return = 0}

\* up to MaxParts partitions, with and without a timeout
PartInputs ==
    {[parts |-> ps, verbose |-> v, timeout |-> t] :
        ps \in UNION {SeqsOver(UNION {RankedSeqs(PartOps, k) : k \in 0..MaxPartOps}, m) :
                        m \in 0..MaxParts},
        v \in BOOLEAN, t \in {0, 1}}

\* mutant: a timeout of 0 arms the channel too
armTimeoutAlways(t) == t >= 0

\* timeoutChan is set only when timeout > 0
armTimeout(t) == t > 0

Init ==
    /\ \E in \in SingleInputs \cup PartInputs :
          /\ partitions = in.parts
          /\ computeInfo = in.verbose
          /\ timeout = in.timeout
    /\ events = << >>
    /\ history \in entriesOutcomes(partitions)
    /\ workers = [i \in 1..Len(history) |-> checkSingleInit(history[i], computeInfo)]
    /\ results = << >>
    /\ longest = [i \in 1..Len(history) |-> << >>]
    /\ kill = 0
    /\ timeoutChan = armTimeout(timeout)
    /\ dpc = "select"
    /\ ok = TRUE
    /\ timedOut = FALSE
    /\ count = 0
    /\ result = "none"
    /\ info = [history |-> << >>, partialLinearizations |-> << >>]
    /\ folded = {}

\* ------------------------------------------------------------------ workers
workerVars == <<results, longest, kill, dpc, ok, timedOut, count, result, info, folded>>

AtLoop(i) == i \in 1..Len(workers) /\ workers[i].pc = "loop"

WorkerComplete(i) ==
    /\ AtLoop(i) /\ ~loopCond(workers[i])
    /\ workers' = [workers EXCEPT ![i] = doComplete(@)]
    /\ UNCHANGED <<inputVars, workerVars>>

\* mutant: the worker gives up although the cancel flag is not set
WorkerKilledSpurious(i) ==
    /\ AtLoop(i) /\ loopCond(workers[i])
    /\ workers' = [workers EXCEPT ![i] = doKilled(@)]
    /\ UNCHANGED <<inputVars, workerVars>>

WorkerKilled(i) ==
    /\ AtLoop(i) /\ loopCond(workers[i]) /\ kill # 0
    /\ workers' = [workers EXCEPT ![i] = doKilled(@)]
    /\ UNCHANGED <<inputVars, workerVars>>

WorkerAccept(i) ==
    /\ AtLoop(i) /\ loopCond(workers[i]) /\ kill = 0
    /\ atCall(workers[i]) /\ accepts(workers[i])
    /\ workers' = [workers EXCEPT ![i] = doAccept(@)]
    /\ UNCHANGED <<inputVars, workerVars>>

WorkerSkip(i) ==
    /\ AtLoop(i) /\ loopCond(workers[i]) /\ kill = 0
    /\ atCall(workers[i]) /\ ~accepts(workers[i])
    /\ workers' = [workers EXCEPT ![i] = doSkip(@)]
    /\ UNCHANGED <<inputVars, workerVars>>

WorkerExhausted(i) ==
    /\ AtLoop(i) /\ loopCond(workers[i]) /\ kill = 0
    /\ ~atCall(workers[i]) /\ Len(workers[i].calls) = 0
    /\ workers' = [workers EXCEPT ![i] = doExhausted(@)]
    /\ UNCHANGED <<inputVars, workerVars>>

WorkerBacktrack(i) ==
    /\ AtLoop(i) /\ loopCond(workers[i]) /\ kill = 0
    /\ ~atCall(workers[i]) /\ Len(workers[i].calls) > 0
    /\ workers' = [workers EXCEPT ![i] = doBacktrack(@)]
    /\ UNCHANGED <<inputVars, workerVars>>

\* longest[i] = l
WorkerStore(i) ==
    /\ i \in 1..Len(workers) /\ workers[i].pc = "returned"
    /\ longest' = [longest EXCEPT ![i] = workers[i].longest]
    /\ workers' = [workers EXCEPT ![i].pc = "send"]
    /\ UNCHANGED <<inputVars, results, kill, dpc, ok, timedOut, count, result, info, folded>>

\* mutant: the results channel has room for one result only
WorkerSendOneSlot(i) ==
    /\ i \in 1..Len(workers) /\ workers[i].pc = "send"
    /\ Len(results) < 1
    /\ results' = Append(results, [from |-> i, ok |-> workers[i].ok])
    /\ workers' = [workers EXCEPT ![i].pc = "done"]
    /\ UNCHANGED <<inputVars, longest, kill, dpc, ok, timedOut, count, result, info, folded>>

\* results <- ok; the channel has room for one result per partition
WorkerSend(i) ==
    /\ i \in 1..Len(workers) /\ workers[i].pc = "send"
    /\ Len(results) < Len(history)
    /\ results' = Append(results, [from |-> i, ok |-> workers[i].ok])
    /\ workers' = [workers EXCEPT ![i].pc = "done"]
    /\ UNCHANGED <<inputVars, longest, kill, dpc, ok, timedOut, count, result, info, folded>>


\* mutant: ok = result instead of ok = ok && result
ReceiveOverwrite ==
    /\ dpc = "select" /\ results # << >>
    /\ LET msg == Head(results)
           newOk == msg.ok
       IN /\ results' = Tail(results)
          /\ count' = count + 1
          /\ ok' = newOk
          /\ folded' = folded \cup {msg.from}
          /\ IF ~newOk /\ ~computeInfo
             THEN kill' = 1 /\ dpc' = "after"
             ELSE /\ kill' = kill
                  /\ dpc' = IF count + 1 >= Len(history) THEN "after" ELSE "select"
    /\ UNCHANGED <<inputVars, workers, longest, timedOut, result, info>>

\* mutant: a false result does not end the loop before every worker reported
ReceiveKeepsWaiting ==
    /\ dpc = "select" /\ results # << >>
    /\ LET msg == Head(results)
           newOk == ok /\ msg.ok
       IN /\ results' = Tail(results)
          /\ count' = count + 1
          /\ ok' = newOk
          /\ folded' = folded \cup {msg.from}
          /\ kill' = IF ~newOk /\ ~computeInfo THEN 1 ELSE kill
          /\ dpc' = IF count + 1 >= Len(history) THEN "after" ELSE "select"
    /\ UNCHANGED <<inputVars, workers, longest, timedOut, result, info>>

\* ------------------------------------------------------------------ checkParallel
\* mutant: a false result sets the cancel flag in verbose mode too
ReceiveCancelsVerbose ==
    /\ dpc = "select" /\ results # << >>
    /\ LET msg == Head(results)
           newOk == ok /\ msg.ok
       IN /\ results' = Tail(results)
          /\ count' = count + 1
          /\ ok' = newOk
          /\ folded' = folded \cup {msg.from}
          /\ kill' = IF ~newOk THEN 1 ELSE kill
          /\ dpc' = IF (~newOk /\ ~computeInfo) \/ count + 1 >= Len(history)
                    THEN "after" ELSE "select"
    /\ UNCHANGED <<inputVars, workers, longest, timedOut, result, info>>

\* case result := <-results
Receive ==
    /\ dpc = "select" /\ results # << >>
    /\ LET msg == Head(results)
           newOk == ok /\ msg.ok
       IN /\ results' = Tail(results)
          /\ count' = count + 1
          /\ ok' = newOk
          /\ folded' = folded \cup {msg.from}
          /\ IF ~newOk /\ ~computeInfo
             THEN kill' = 1 /\ dpc' = "after"
             ELSE /\ kill' = kill
                  /\ dpc' = IF count + 1 >= Len(history) THEN "after" ELSE "select"
    /\ UNCHANGED <<inputVars, workers, longest, timedOut, result, info>>

\* mutant: the timeout case fires although the channel was never armed
TimeoutUnarmed ==
    /\ dpc = "select"
    /\ timedOut' = TRUE
    /\ kill' = 1
    /\ dpc' = "after"
    /\ UNCHANGED <<inputVars, workers, results, longest, ok, count, result, info, folded>>

\* case <-timeoutChan
Timeout ==
    /\ dpc = "select" /\ timeoutChan
    /\ timedOut' = TRUE
    /\ kill' = 1
    /\ dpc' = "after"
    /\ UNCHANGED <<inputVars, workers, results, longest, ok, count, result, info, folded>>


\* mutant: the results received while waiting are folded into ok
DrainFolding ==
    /\ dpc = "after" /\ computeInfo /\ count < Len(history)
    /\ results # << >>
    /\ results' = Tail(results)
    /\ count' = count + 1
    /\ ok' = (ok /\ Head(results).ok)
    /\ folded' = folded \cup {Head(results).from}
    /\ UNCHANGED <<inputVars, workers, longest, kill, dpc, timedOut, result, info>>

\* verbose: wait for the goroutines that have not reported yet
Drain ==
    /\ dpc = "after" /\ computeInfo /\ count < Len(history)
    /\ results # << >>
    /\ results' = Tail(results)
    /\ count' = count + 1
    /\ UNCHANGED <<inputVars, workers, longest, kill, dpc, ok, timedOut, result, info, folded>>

\* the distinct non-nil references of longest[i]
longestSet(i) == {longest[i][k] : k \in 1..Len(longest[i])} \ {NIL}

\* the partial linearizations of partition i: one copy per distinct reference,
\* in the order the map iteration happens to produce
partialsOutcomes(i) ==
    {[k \in 1..Cardinality(longestSet(i)) |-> workers[i].heap[p[k]]] : p \in PermSeqs(longestSet(i))}

\* mutant: a timeout wins over a recorded rejection
checkResultTimeoutFirst(isOk, isTimedOut) ==
    IF isTimedOut THEN "Unknown" ELSE IF ~isOk THEN "Illegal" ELSE "Ok"

checkResult(isOk, isTimedOut) ==
    IF ~isOk THEN "Illegal" ELSE IF isTimedOut THEN "Unknown" ELSE "Ok"

\* mutant: the partial linearizations are extracted without waiting for the
\* goroutines that have not reported
FinishWithoutWaiting ==
    /\ dpc = "after"
    /\ IF computeInfo
       THEN \E pl \in {f \in [1..Len(history) -> UNION {partialsOutcomes(i) : i \in 1..Len(history)}] :
                         \A i \in 1..Len(history) : f[i] \in partialsOutcomes(i)} :
               info' = [history |-> history, partialLinearizations |-> pl]
       ELSE info' = info
    /\ result' = checkResult(ok, timedOut)
    /\ dpc' = "done"
    /\ UNCHANGED <<inputVars, workers, results, longest, kill, ok, timedOut, count, folded>>

\* the rest of checkParallel: the info (verbose) and the result
Finish ==
    /\ dpc = "after" /\ (computeInfo => count >= Len(history))
    /\ IF computeInfo
       THEN \E pl \in {f \in [1..Len(history) -> UNION {partialsOutcomes(i) : i \in 1..Len(history)}] :
                         \A i \in 1..Len(history) : f[i] \in partialsOutcomes(i)} :
               info' = [history |-> history, partialLinearizations |-> pl]
       ELSE info' = info
    /\ result' = checkResult(ok, timedOut)
    /\ dpc' = "done"
    /\ UNCHANGED <<inputVars, workers, results, longest, kill, ok, timedOut, count, folded>>

\* some worker takes the step
Complete == \E i \in 1..Len(workers) : WorkerComplete(i)

Killed == \E i \in 1..Len(workers) : WorkerKilled(i)

Accept == \E i \in 1..Len(workers) : WorkerAccept(i)

Skip == \E i \in 1..Len(workers) : WorkerSkip(i)

Exhausted == \E i \in 1..Len(workers) : WorkerExhausted(i)

Backtrack == \E i \in 1..Len(workers) : WorkerBacktrack(i)

Store == \E i \in 1..Len(workers) : WorkerStore(i)

Send == \E i \in 1..Len(workers) : WorkerSend(i)

Next ==
    \/ Complete
    \/ Killed
    \/ Accept
    \/ Skip
    \/ Exhausted
    \/ Backtrack
    \/ Store
    \/ Send
    \/ Receive
    \/ Timeout
    \/ Drain
    \/ Finish

Spec == Init /\ [][Next]_vars

\* ------------------------------------------------------------------ linearizability
\* operation a precedes operation b in real time: a returned strictly before b was called
precedes(ops, a, b) == ops[a].Return < ops[b].Call

\* p, a sequence of positions of ops, respects real-time precedence
respectsRealTime(ops, p) ==
    \A i \in 1..Len(p) : \A j \in 1..Len(p) : i < j => ~precedes(ops, p[j], p[i])

RECURSIVE stepsFrom(_, _, _)
\* Step accepts the operations of ops in the order p, starting in state
stepsFrom(ops, p, state) ==
    IF p = << >> THEN TRUE
    ELSE LET r == registerStep(state, ops[Head(p)].Input, ops[Head(p)].Output)
         IN r.ok /\ stepsFrom(ops, Tail(p), r.state)

\* p is a linearization of ops
isLinearization(ops, p) == respectsRealTime(ops, p) /\ stepsFrom(ops, p, registerInit)

Linearizable(ops) == \E p \in PermSeqs(1..Len(ops)) : isLinearization(ops, p)

Done == dpc = "done"

\* ------------------------------------------------------------------ claims
\* C1: with no timeout and a single partition, the check of a well-formed
\* history returns Ok exactly when some total order of all its operations
\* respects real-time precedence (return strictly before call) and is accepted
\* by Step from Init at every step; otherwise it returns Illegal.
C1_OkIffLinearizable ==
    (Done /\ timeout = 0 /\ Len(partitions) = 1) =>
        /\ (result = "Ok") <=> Linearizable(partitions[1])
        /\ result \in {"Ok", "Illegal"}

\* a three-operation history found linearizable after the search backtracked
C1_Witness ==
    /\ Done /\ timeout = 0 /\ Len(partitions) = 1
    /\ Len(partitions[1]) = 3
    /\ result = "Ok"
    /\ computeInfo /\ Len(workers[1].heap) >= 2

\* what checkSingle returns for partition i when it is never cancelled
singleAccepts(i) == checkSingleRun(checkSingleInit(history[i], computeInfo)).ok

\* C2: with no timeout and at least one partition, verbose or not, the result
\* is Ok exactly when checkSingle accepts every partition and Illegal exactly
\* when it rejects at least one, in whatever order the workers report.
C2_Compositional ==
    (Done /\ timeout = 0 /\ Len(history) >= 1) =>
        /\ (result = "Ok") <=> (\A i \in 1..Len(history) : singleAccepts(i))
        /\ (result = "Illegal") <=> (\E i \in 1..Len(history) : ~singleAccepts(i))

\* two partitions, the second one rejected and the only one that reported
C2_Witness ==
    /\ Done /\ timeout = 0 /\ Len(history) = 2
    /\ result = "Illegal"
    /\ folded = {2}
    /\ singleAccepts(1)

\* C3: a result of Illegal comes from a worker whose own search was
\* exhausted; the false of a worker that saw the cancel flag is never folded
\* into the overall result.
C3_NoIllegalByCancel ==
    /\ \A i \in folded : workers[i].why # "killed"
    /\ (Done /\ result = "Illegal") => \E i \in folded : workers[i].why = "exhausted"

\* Illegal was returned while a cancelled worker had sent its false
C3_Witness ==
    /\ Done /\ result = "Illegal"
    /\ \E i \in 1..Len(workers) : workers[i].why = "killed" /\ workers[i].pc = "done"

\* some folded result was false
foldedFalse == \E i \in folded : ~workers[i].ok

\* C4 as stated: whenever the timeout expires before all results are
\* collected, the cancel flag is set and the overall result is Unknown, verbose
\* or not and whatever was collected before the expiry.
C4_TimeoutGivesUnknown == (Done /\ timedOut) => (kill = 1 /\ result = "Unknown")

\* C4 amended: when the timeout expires before all results are collected, the
\* cancel flag is set and the overall result is Unknown, unless a worker's
\* not-linearizable result had been collected before the expiry, which happens
\* in verbose mode only and makes the result Illegal.
C4_TimeoutUnknownUnlessRejected ==
    (Done /\ timedOut) =>
        /\ kill = 1
        /\ IF foldedFalse
           THEN computeInfo /\ result = "Illegal"
           ELSE result = "Unknown"

\* the timeout expired after a rejection was collected (Illegal), with a
\* worker still to be waited for
C4_Witness ==
    /\ Done /\ timedOut /\ result = "Illegal"
    /\ Cardinality(folded) < Len(history)

\* C5: with timeout 0 no check returns Unknown: the timeout never fires, every
\* finished check is Ok or Illegal, and the cancel flag is set only after the
\* result of an exhausted search was received.
C5_UnlimitedNeverUnknown ==
    timeout = 0 =>
        /\ ~timedOut
        /\ Done => result \in {"Ok", "Illegal"}
        /\ kill # 0 => \E i \in folded : workers[i].why = "exhausted"

\* an unlimited check that set the cancel flag and returned Illegal
C5_Witness == Done /\ timeout = 0 /\ kill = 1 /\ result = "Illegal"

\* some partition has no linearization
someNotLinearizable == \E i \in 1..Len(partitions) : ~Linearizable(partitions[i])

\* C6 as stated: with timeout 0, checking a (large) nonlinearizable history
\* returns Unknown.
C6_ZeroTimeoutUnknown ==
    (Done /\ timeout = 0 /\ someNotLinearizable) => result = "Unknown"

\* C6 amended: timeout 0 is unlimited, so checking a nonlinearizable history
\* with timeout 0 returns Illegal, never Unknown.
C6_ZeroTimeoutIllegal ==
    (Done /\ timeout = 0 /\ someNotLinearizable) => result = "Illegal"

\* the largest nonlinearizable history, checked with timeout 0, is Illegal
C6_Witness ==
    /\ Done /\ timeout = 0 /\ Len(partitions) = 1
    /\ Len(partitions[1]) = MaxOps
    /\ ~Linearizable(partitions[1])
    /\ result = "Illegal"

\* ------------------------------------------------------------------ visualization
\* callValue / returnValue of computeVisualizationData, for one partition
callValue(entries, id) ==
    (CHOOSE k \in 1..Len(entries) : entries[k].kind = callEntry /\ entries[k].id = id)

returnValue(entries, id) ==
    (CHOOSE k \in 1..Len(entries) : entries[k].kind = returnEntry /\ entries[k].id = id)

RECURSIVE replayFrom(_, _, _)
\* the replay loop of computeVisualizationData: FALSE where it would panic
replayFrom(entries, partial, state) ==
    IF partial = << >> THEN TRUE
    ELSE LET histId == Head(partial)
             r == registerStep(state, entries[callValue(entries, histId)].value.input,
                               entries[returnValue(entries, histId)].value.output)
         IN r.ok /\ replayFrom(entries, Tail(partial), r.state)

replays(entries, partial) == replayFrom(entries, partial, registerInit)

NoDuplicates(seq) == \A i \in 1..Len(seq) : \A j \in 1..Len(seq) : seq[i] = seq[j] => i = j

\* C7: in every verbose result, for every partition and every id i with a
\* non-nil longest[i], the referenced sequence contains i, lists no id twice
\* and replays from Init; so does every partial linearization of the info, and
\* computeVisualizationData does not panic on it.
C7_LongestReplays ==
    (Done /\ computeInfo) =>
        \A p \in 1..Len(history) :
            /\ \A i \in 1..Len(longest[p]) :
                  longest[p][i] # NIL =>
                      LET seq == workers[p].heap[longest[p][i]]
                      IN /\ \E k \in 1..Len(seq) : seq[k] = i - 1
                         /\ NoDuplicates(seq)
                         /\ replays(history[p], seq)
            /\ \A k \in 1..Len(info.partialLinearizations[p]) :
                  replays(info.history[p], info.partialLinearizations[p][k])

\* a verbose check that timed out (Unknown) after its cancelled worker had
\* recorded a partial linearization
C7_Witness ==
    /\ Done /\ computeInfo /\ result = "Unknown"
    /\ \E p \in 1..Len(history) :
          /\ workers[p].why = "killed"
          /\ \E i \in 1..Len(longest[p]) : longest[p][i] # NIL
          /\ Len(info.partialLinearizations[p]) >= 1

\* C8: when checkSingle returns true for a partition of n operations, every
\* longest[i] references one and the same sequence, which is a permutation of
\* 0..n-1 and lists the ids of the final calls stack in push order; in verbose
\* mode the partition has exactly one partial linearization (none when n = 0).
C8_CompleteLinearization ==
    \A p \in 1..Len(workers) :
        LET w == workers[p]
        IN w.why = "complete" =>
              /\ Len(w.longest) = w.n
              /\ \A i \in 1..w.n :
                    /\ w.longest[i] = w.longest[1]
                    /\ w.heap[w.longest[i]] = callIds(w)
              /\ Len(callIds(w)) = w.n
              /\ Range(callIds(w)) = 0..(w.n - 1)
              /\ w.pc \in {"send", "done"} => longest[p] = w.longest
              /\ (Done /\ computeInfo) =>
                    /\ Len(info.partialLinearizations[p]) = (IF w.n = 0 THEN 0 ELSE 1)
                    /\ w.n > 0 => info.partialLinearizations[p][1] = callIds(w)

\* a verbose check of MaxOps operations accepted with a linearization that is
\* not in id order, after backtracking
C8_Witness ==
    /\ Done /\ computeInfo /\ Len(workers) = 1
    /\ workers[1].why = "complete" /\ workers[1].n = MaxOps
    /\ Len(info.partialLinearizations[1]) = 1
    /\ info.partialLinearizations[1][1] # [k \in 1..MaxOps |-> k - 1]
    /\ Len(workers[1].heap) >= 2

\* C9: in verbose mode, when a search runs to exhaustion, for every id that
\* was ever on the calls stack longest[i] has the largest length the stack
\* ever had while holding i, and an id never accepted has longest[i] = nil and
\* is in no partial linearization.
C9_LongestIsMaximal ==
    \A p \in 1..Len(workers) :
        LET w == workers[p]
        IN (w.computePartial /\ w.why = "exhausted") =>
              /\ \A i \in 1..w.n :
                    IF w.maxDepth[i] = 0
                    THEN w.longest[i] = NIL
                    ELSE /\ w.longest[i] # NIL
                         /\ Len(w.heap[w.longest[i]]) = w.maxDepth[i]
              /\ Done =>
                    \A k \in 1..Len(info.partialLinearizations[p]) :
                        \A j \in 1..Len(info.partialLinearizations[p][k]) :
                            w.maxDepth[info.partialLinearizations[p][k][j] + 1] > 0

\* an exhausted verbose search with one id never accepted and another whose
\* longest was first recorded from a shorter stack and later replaced
C9_Witness ==
    \E p \in 1..Len(workers) :
        LET w == workers[p]
        IN /\ w.computePartial /\ w.why = "exhausted" /\ Done
           /\ \E i \in 1..w.n : w.longest[i] = NIL
           /\ \E j \in 1..w.n : \E h \in 1..Len(w.heap) :
                 /\ w.longest[j] # NIL
                 /\ (j - 1) \in Range(w.heap[h])
                 /\ Len(w.heap[h]) < Len(w.heap[w.longest[j]])

\* a's return timestamp equals b's call timestamp (a and b distinct)
touches(ops, a, b) == a # b /\ ops[a].Return = ops[b].Call

\* position of operation x in the order p
posIn(p, x) == CHOOSE k \in 1..Len(p) : p[k] = x

\* C10: intervals are closed: when a's return timestamp equals b's call
\* timestamp (zero-duration operations included) a and b are concurrent, so a
\* history is accepted whenever Step accepts an order that respects strict
\* precedence, also one that puts b before a.
C10_ClosedIntervals ==
    (Done /\ timeout = 0 /\ Len(partitions) = 1) =>
        LET ops == partitions[1]
        IN \A a \in 1..Len(ops) : \A b \in 1..Len(ops) :
              (touches(ops, a, b) /\
               \E p \in PermSeqs(1..Len(ops)) :
                   isLinearization(ops, p) /\ posIn(p, b) < posIn(p, a))
              => result = "Ok"

\* an accepted history all of whose linearizations put b before a although
\* a returns at the very timestamp at which b is called
C10_Witness ==
    /\ Done /\ timeout = 0 /\ Len(partitions) = 1 /\ result = "Ok"
    /\ LET ops == partitions[1]
       IN \E a \in 1..Len(ops) : \E b \in 1..Len(ops) :
             /\ touches(ops, a, b)
             /\ \A p \in PermSeqs(1..Len(ops)) :
                   isLinearization(ops, p) => posIn(p, b) < posIn(p, a)

\* C13: in verbose mode the extraction of the partial linearizations starts,
\* and so longest[i] is read, only after every worker has stored longest[i]
\* and sent its result, also when the timeout fired first.
C13_ReadAfterJoin ==
    (computeInfo /\ (Done \/ (dpc = "after" /\ count >= Len(history)))) =>
        \A i \in 1..Len(history) :
            workers[i].pc = "done" /\ longest[i] = workers[i].longest

\* a verbose check of two partitions whose timeout fired before any result
\* was received, and which then waited for a cancelled worker
C13_Witness ==
    /\ Done /\ computeInfo /\ timedOut /\ Len(history) = 2
    /\ folded = {}
    /\ \E i \in 1..Len(workers) : workers[i].why = "killed"

\* C14: in non-verbose mode, as soon as the driver has received a false
\* result it has left the select loop with the cancel flag set, it can return
\* at once, whatever the other workers are doing, and it returns Illegal.
C14_FalseStopsAtOnce ==
    (~computeInfo /\ ~ok) =>
        /\ dpc # "select"
        /\ kill = 1
        /\ dpc = "after" => ENABLED Finish
        /\ Done => result = "Illegal"

\* a non-verbose check that returned Illegal while another worker was still
\* searching or had not sent its result
C14_Witness ==
    /\ Done /\ ~computeInfo /\ result = "Illegal" /\ kill = 1
    /\ \E i \in 1..Len(workers) : workers[i].pc \in {"loop", "returned", "send"}

\* the history has no operations, however it was partitioned
emptyHistory == \A i \in 1..Len(partitions) : partitions[i] = << >>

\* C15: for an empty history, split by the default partitioner (one empty
\* partition) or by a user partitioner (no partition at all), the check with
\* no timeout returns, and it returns Ok with no partial linearization.
C15_EmptyIsOk ==
    (emptyHistory /\ timeout = 0) =>
        /\ Done \/ ENABLED Next
        /\ Done =>
              /\ result = "Ok"
              /\ computeInfo =>
                    \A i \in 1..Len(info.partialLinearizations) :
                        info.partialLinearizations[i] = << >>

\* checkSingle of the only partition, run to its return without cancellation
singleRun == checkSingleRun(checkSingleInit(history[1], computeInfo))

\* the partial linearizations a finished search has recorded, as a set
partialSet(w) == {w.heap[w.longest[k]] : k \in {j \in 1..Len(w.longest) : w.longest[j] # NIL}}

\* the buckets of a cache, as a set
cacheBuckets(cache) == {<<h, cache[h]>> : h \in DOMAIN cache}

\* two states of a search are the same
sameSearch(a, b) ==
    /\ a.pc = b.pc /\ a.ok = b.ok /\ a.why = b.why
    /\ a.entry = b.entry /\ a.nodes = b.nodes
    /\ a.calls = b.calls /\ a.state = b.state
    /\ a.linearized = b.linearized
    /\ cacheBuckets(a.cache) = cacheBuckets(b.cache)
    /\ a.longest = b.longest /\ a.heap = b.heap

RECURSIVE onRun(_, _)
\* w is one of the states the search goes through when started in w0
onRun(w0, w) ==
    IF sameSearch(w0, w) THEN TRUE
    ELSE IF w0.pc # "loop" THEN FALSE
    ELSE onRun(checkSingleStep(w0, 0), w)

\* the search of worker i, whatever it did after it returned
searchOf(i) ==
    IF workers[i].pc \in {"send", "done"} THEN [workers[i] EXCEPT !.pc = "returned"] ELSE workers[i]

\* the result is the one the uncancelled search determines, and so are the
\* partial linearizations
sameAsSingleRun ==
    /\ result = (IF singleRun.ok THEN "Ok" ELSE "Illegal")
    /\ computeInfo => Range(info.partialLinearizations[1]) = partialSet(singleRun)

\* C17 as stated: with a single partition, the result and the set of partial
\* linearizations are determined by the inputs (the entries, the verbose flag
\* and the timeout), and the search goes through the same pushes and pops on
\* every run.
C17_Deterministic ==
    Len(history) = 1 =>
        /\ onRun(checkSingleInit(history[1], computeInfo), searchOf(1))
        /\ Done => sameAsSingleRun

\* C17 amended: with a single partition, two runs on identical inputs in
\* neither of which the timeout expires (always so with timeout 0) go through
\* the same pushes and pops and yield the same result and the same set of
\* partial linearizations; a run whose timeout expires returns Unknown and its
\* search is cut short after a prefix of these pushes and pops.
C17_DeterministicUnlessTimedOut ==
    Len(history) = 1 =>
        /\ ~timedOut =>
              /\ onRun(checkSingleInit(history[1], computeInfo), searchOf(1))
              /\ Done => sameAsSingleRun
        /\ timedOut =>
              /\ \/ onRun(checkSingleInit(history[1], computeInfo), searchOf(1))
                 \/ /\ searchOf(1).why = "killed"
                    /\ onRun(checkSingleInit(history[1], computeInfo),
                             [searchOf(1) EXCEPT !.pc = "loop", !.why = "running"])
              /\ Done => result = "Unknown"

\* a verbose check of MaxOps operations that returned Illegal with a partial
\* linearization, after two backtracks that recorded one, the timeout never
\* having been armed
C17_Witness ==
    /\ Done /\ Len(history) = 1 /\ timeout = 0 /\ computeInfo
    /\ Len(partitions[1]) = MaxOps
    /\ result = "Illegal"
    /\ Len(workers[1].heap) >= 2
    /\ info.partialLinearizations[1] # << >>

\* the call nodes of the live list
liveCalls(nodes) == {c \in Range(Tail(listFrom(nodes, HEAD))) : nodes[c].match # NIL}

RECURSIVE roundTrips(_)
\* the lists left by lifting any calls one after the other and unlifting them
\* in reverse order
roundTrips(nodes) ==
    {nodes} \cup UNION {{unlift(m, c) : m \in roundTrips(lift(nodes, c))} : c \in liveCalls(nodes)}

\* C18: lifting a call node and then unlifting it leaves every next and prev
\* pointer of every node as it was, also when the return is the last node and
\* when call and return are adjacent; so does any sequence of lifts undone by
\* unlifts in reverse order.
C18_LiftUnliftRestores ==
    \A p \in 1..Len(workers) :
        /\ \A c \in liveCalls(workers[p].nodes) :
              unlift(lift(workers[p].nodes, c), c) = workers[p].nodes
        /\ roundTrips(workers[p].nodes) = {workers[p].nodes}
        /\ (workers[p].pc = "loop" /\ workers[p].calls = << >>) =>
              workers[p].nodes = checkSingleInit(history[p], computeInfo).nodes

\* a search that has lifted and unlifted, is back at its full list, and whose
\* list ends in a call immediately followed by its return
C18_Witness ==
    \E p \in 1..Len(workers) :
        LET w == workers[p]
        IN /\ w.pc = "loop" /\ w.calls = << >> /\ Len(w.heap) >= 1
           /\ Len(history[p]) >= 4
           /\ \E c \in liveCalls(w.nodes) :
                 /\ w.nodes[c].next = w.nodes[c].match
                 /\ w.nodes[w.nodes[c].match].next = NIL

\* the addresses of the entries of partition p whose id is not in b, in order
unlinearizedNodes(p, b) ==
    SelectSeq([k \in 1..Len(history[p]) |-> k], LAMBDA k : history[p][k].id \notin BitsOf(b))

\* C19: at every loop-top of checkSingle the nodes reachable from the head
\* sentinel via next are exactly the call and return nodes of the operations
\* whose bit is clear in linearized, in their original relative order.
C19_LiveListIsUnlinearized ==
    \A p \in 1..Len(workers) :
        workers[p].pc = "loop" =>
            Tail(listFrom(workers[p].nodes, HEAD)) = unlinearizedNodes(p, workers[p].linearized)

\* a loop-top after a backtrack with one operation linearized and the nodes of
\* two others in the list
C19_Witness ==
    \E p \in 1..Len(workers) :
        LET w == workers[p]
        IN /\ w.pc = "loop" /\ Len(w.heap) >= 1
           /\ Cardinality(BitsOf(w.linearized)) = 1
           /\ Len(listFrom(w.nodes, HEAD)) = 5

RECURSIVE stepFrames(_, _)
\* Step applied from Init() to the operations of the first k frames of the
\* calls stack, in stack order
stepFrames(w, k) ==
    IF k = 0 THEN [ok |-> TRUE, state |-> registerInit]
    ELSE LET before == stepFrames(w, k - 1)
             call == w.calls[k].entry
             r == registerStep(before.state, nodeValueAsInput(w.nodes[call]),
                               nodeValueAsOutput(w.nodes[w.nodes[call].match]))
         IN [ok |-> before.ok /\ r.ok, state |-> r.state]

\* the stack's ids are the set bits, and the live and saved states are those
\* of replaying the stack
stackConsistent(w) ==
    /\ Range(callIds(w)) = BitsOf(w.linearized)
    /\ NoDuplicates(callIds(w))
    /\ stepFrames(w, Len(w.calls)).ok
    /\ StateEquals(w.state, stepFrames(w, Len(w.calls)).state)
    /\ \A k \in 1..Len(w.calls) : StateEquals(w.calls[k].state, stepFrames(w, k - 1).state)

\* C20: at every loop-top of checkSingle the ids on the calls stack are the
\* bits set in linearized, each id once, and the live state equals the state
\* of stepping the stack's operations in stack order from Init(); on
\* acceptance the final state is the state of replaying the emitted
\* linearization.
C20_StackMatchesBitset ==
    \A p \in 1..Len(workers) :
        LET w == workers[p]
        IN /\ w.pc = "loop" => stackConsistent(w)
           /\ w.why = "complete" =>
                 /\ stackConsistent(w)
                 /\ \A i \in 1..w.n : w.heap[w.longest[i]] = callIds(w)

\* a loop-top after a backtrack, with two frames on the stack and a live
\* state other than the initial one
C20_Witness ==
    \E p \in 1..Len(workers) :
        LET w == workers[p]
        IN /\ w.pc = "loop" /\ Len(w.heap) >= 1
           /\ Len(w.calls) = 2
           /\ w.state # registerInit

\* ------------------------------------------------------------------ event form
MaxEvents == 4       \* events of an arbitrary event-form history
MaxEventOps == 3     \* operations of a history whose events are emitted
MaxTimedEvents == 2  \* events of an event-form history checked with a timeout

CallEvent == FALSE
ReturnEvent == TRUE

\* an Event of the register model; Value is boxed like the value of an entry
Event(clientId, kind, value, id) ==
    [ClientId |-> clientId, Kind |-> kind, Value |-> value, Id |-> id]

RECURSIVE renumberFrom(_, _, _, _)
\* the loop of renumber from its k-th event on: m is the renumbering so far
\* (a map from the ids seen to their new ids) and id the next new id
renumberFrom(evs, k, m, id) ==
    IF k > Len(evs) THEN << >>
    ELSE LET v == evs[k]
         IN IF v.Id \in DOMAIN m
            THEN <<Event(v.ClientId, v.Kind, v.Value, m[v.Id])>>
                     \o renumberFrom(evs, k + 1, m, id)
            ELSE <<Event(v.ClientId, v.Kind, v.Value, id)>>
                     \o renumberFrom(evs, k + 1,
                                     [x \in DOMAIN m \cup {v.Id} |-> IF x = v.Id THEN id ELSE m[x]],
                                     id + 1)

\* mutant: the renumbering is never looked up, every event gets a new id
renumberAlwaysFresh(evs) ==
    [k \in 1..Len(evs) |-> Event(evs[k].ClientId, evs[k].Kind, evs[k].Value, k - 1)]

\* mutant: the events keep their ids
renumberKeepsIds(evs) == evs

renumber(evs) == renumberFrom(evs, 1, << >>, 0)

RECURSIVE convertFrom(_, _)
\* the loop of convertEntries from its k-th event on; the index is the time
convertFrom(evs, k) ==
    IF k > Len(evs) THEN << >>
    ELSE LET elem == evs[k]
             kind == IF elem.Kind = ReturnEvent THEN returnEntry ELSE callEntry
         IN <<[kind |-> kind, value |-> elem.Value, id |-> elem.Id,
               time |-> k - 1, clientId |-> elem.ClientId]>>
                \o convertFrom(evs, k + 1)

convertEntries(evs) == convertFrom(evs, 1)

\* noPartitionEvent: a single partition with all the events
noPartitionEvent(evs) == <<evs>>

\* l of checkEvents
eventEntries(parts) == [i \in 1..Len(parts) |-> convertEntries(renumber(parts[i]))]

\* the event-form histories emitted from an operation history: its calls and
\* returns in timestamp order, calls before returns, the id of an event being
\* the index of its operation
toEvents(ops) ==
    {[k \in 1..Len(h) |->
         Event(h[k].clientId, IF h[k].kind = returnEntry THEN ReturnEvent ELSE CallEvent,
               h[k].value, h[k].id)] : h \in makeEntries(ops)}

\* the events an arbitrary event-form history is made of
EventIds == 0..1

AnyEvents ==
    {Event(0, CallEvent, [input |-> [op |-> FALSE, value |-> v]], id) : v \in 1..MaxVal, id \in EventIds}
    \cup {Event(0, CallEvent, [input |-> [op |-> TRUE, value |-> 0]], id) : id \in EventIds}
    \cup {Event(0, ReturnEvent, [output |-> v], id) : v \in 0..MaxVal, id \in EventIds}

\* every id has exactly one call and one return, the call first
WellFormedEvents(evs) ==
    \A id \in {evs[k].Id : k \in 1..Len(evs)} :
        LET at == {k \in 1..Len(evs) : evs[k].Id = id}
        IN /\ Cardinality(at) = 2
           /\ \E c \in at : \E r \in at :
                 c < r /\ evs[c].Kind = CallEvent /\ evs[r].Kind = ReturnEvent

\* the event-form inputs: the histories emitted from well-formed operation
\* histories, and the malformed ones among the arbitrary sequences of events
EventInputs ==
    UNION {{[ops |-> ops, events |-> evs, verbose |-> v, timeout |-> 0] :
               evs \in toEvents(ops), v \in BOOLEAN} : ops \in Histories(MaxEventOps)}
    \cup {[ops |-> << >>, events |-> evs, verbose |-> v, timeout |-> 0] :
            evs \in {q \in UNION {SeqsOver(AnyEvents, k) : k \in 1..MaxEvents} : ~WellFormedEvents(q)},
            v \in BOOLEAN}
    \cup {[ops |-> << >>, events |-> evs, verbose |-> v, timeout |-> 1] :
            evs \in UNION {SeqsOver(AnyEvents, k) : k \in 0..MaxTimedEvents}, v \in BOOLEAN}

\* checkEvents up to its call of checkParallel, and checkParallel up to its
\* select loop; partitions keeps the operation history the events were
\* emitted from, when there is one
InitEvents ==
    /\ \E in \in EventInputs :
          /\ partitions = <<in.ops>>
          /\ events = noPartitionEvent(in.events)
          /\ computeInfo = in.verbose
          /\ timeout = in.timeout
    /\ history = eventEntries(events)
    /\ workers = [i \in 1..Len(history) |-> checkSingleInit(history[i], computeInfo)]
    /\ results = << >>
    /\ longest = [i \in 1..Len(history) |-> << >>]
    /\ kill = 0
    /\ timeoutChan = armTimeout(timeout)
    /\ dpc = "select"
    /\ ok = TRUE
    /\ timedOut = FALSE
    /\ count = 0
    /\ result = "none"
    /\ info = [history |-> << >>, partialLinearizations |-> << >>]
    /\ folded = {}

\* lift dereferences entry.prev, entry.next and match.prev: a nil one panics
liftPanics(nodes, entry) ==
    \/ nodes[entry].prev = NIL
    \/ nodes[entry].next = NIL
    \/ nodes[nodes[entry].match].prev = NIL

\* the scan pointer is a node: entry.match does not panic
entryNotNil(i) == workers[i].entry # NIL

\* the steps of checkSingle that read entry.match, where that does not panic
AcceptLifted ==
    \E i \in 1..Len(workers) :
        /\ AtLoop(i) /\ loopCond(workers[i]) /\ kill = 0
        /\ entryNotNil(i)
        /\ atCall(workers[i]) /\ accepts(workers[i])
        /\ ~liftPanics(workers[i].nodes, workers[i].entry)
        /\ WorkerAccept(i)

SkipNotNil == \E i \in 1..Len(workers) : entryNotNil(i) /\ WorkerSkip(i)

ExhaustedNotNil == \E i \in 1..Len(workers) : entryNotNil(i) /\ WorkerExhausted(i)

BacktrackNotNil == \E i \in 1..Len(workers) : entryNotNil(i) /\ WorkerBacktrack(i)

\* entry.match with a nil entry, or lift(entry), panics in the goroutine: the
\* program crashes, and checkParallel never returns
Panic ==
    \E i \in 1..Len(workers) :
        /\ AtLoop(i) /\ loopCond(workers[i]) /\ kill = 0
        /\ \/ ~entryNotNil(i)
           \/ /\ entryNotNil(i)
              /\ atCall(workers[i]) /\ accepts(workers[i])
              /\ liftPanics(workers[i].nodes, workers[i].entry)
        /\ workers' = [workers EXCEPT ![i].pc = "panicked"]
        /\ dpc' = "crashed"
        /\ UNCHANGED <<inputVars, results, longest, kill, ok, timedOut, count, result, info, folded>>

NextEvents ==
    \/ Complete
    \/ Killed
    \/ AcceptLifted
    \/ SkipNotNil
    \/ ExhaustedNotNil
    \/ BacktrackNotNil
    \/ Panic
    \/ Store
    \/ Send
    \/ Receive
    \/ Timeout
    \/ Drain
    \/ Finish

SpecEvents == InitEvents /\ [][NextEvents]_vars


\* ------------------------------------------------------------------ claims on the event form
\* the history of events was emitted from the operation history kept in
\* partitions
emitted == events[1] \in toEvents(partitions[1])

\* the results checkOperations can return on the operation history with the
\* same timeout: one per order sort.Sort can leave its entries in, and Unknown
\* when a timeout is armed
opsResults ==
    {IF checkSingleRun(checkSingleInit(e, FALSE)).ok THEN "Ok" ELSE "Illegal" :
        e \in makeEntries(partitions[1])}
    \cup (IF timeout > 0 THEN {"Unknown"} ELSE {})

\* C11: for every well-formed operation history, checking the event-form
\* history obtained by emitting its calls and returns in (timestamp,
\* call-before-return) order gives the same result as checking the operations:
\* the one verdict checking the operations gives when no timeout is armed, and
\* a result checking the operations can give when one is.
C11_EventsSameAsOperations ==
    (Done /\ emitted) =>
        /\ result \in opsResults
        /\ timeout = 0 => opsResults = {result}

\* a finished check of the events of MaxEventOps operations that is Illegal,
\* renumber having changed the id of an event
C11_Witness ==
    /\ Done /\ emitted /\ timeout = 0
    /\ Len(partitions[1]) = MaxEventOps
    /\ result = "Illegal"
    /\ \E k \in 1..Len(events[1]) : history[1][k].id # events[1][k].Id

\* the history of events is malformed: an id with an unmatched call, with more
\* than one call or return, or with a return that precedes its call
malformed == ~WellFormedEvents(events[1])

\* C16: a malformed history makes the check fail with an InvalidHistory error
\* instead of producing an Ok or Illegal verdict. checkEvents has no error
\* result, so a check that returns at all has not failed this way.
C16_MalformedIsRejected ==
    malformed => ~Done

\* ------------------------------------------------------------------ a model whose Step mutates its state
\* a state is a reference to a map object; objects holds the maps, each
\* reduced to the value of the one key the operations use (0 when the key is
\* absent), put and get being the operations of the register

\* mutant: Clone returns the map itself
mapStateCloneShares(objects, m) == [objects |-> objects, ref |-> m]

\* mapState.Clone: a new map with the same contents
mapStateClone(objects, m) == [objects |-> Append(objects, objects[m]), ref |-> Len(objects) + 1]

\* mapState.Equals: reflect.DeepEqual of the two maps
mapStateEquals(objects, a, b) == objects[a] = objects[b]

\* kvNoPartitionModel.Init: a new empty map
kvNoPartitionInit == [objects |-> <<registerInit>>, ref |-> 1]

\* kvNoPartitionModel.Step: a put writes into the map it was given and
\* returns that map
kvNoPartitionStep(objects, st, inp, out) ==
    IF inp.op = TRUE
    THEN [ok |-> (out = objects[st]), state |-> st, objects |-> objects]
    ELSE [ok |-> TRUE, state |-> st, objects |-> [objects EXCEPT ![st] = inp.value]]

\* the state of checkSingle at its first loop-top, with references as states
checkSingleInPlaceInit(entries, computePartial) ==
    [checkSingleInit(entries, computePartial) EXCEPT !.state = kvNoPartitionInit.ref]
        @@ [objects |-> kvNoPartitionInit.objects]

\* model.Step(state.Clone(), input of entry, output of its match)
stepInPlaceAt(r) ==
    LET cloned == mapStateClone(r.objects, r.state)
    IN kvNoPartitionStep(cloned.objects, cloned.ref, nodeValueAsInput(r.nodes[r.entry]),
                         nodeValueAsOutput(r.nodes[r.nodes[r.entry].match]))

\* cacheContains, Equals comparing the maps behind the references
cacheContainsInPlace(objects, cache, entry) ==
    LET bucket == cacheBucket(cache, bitsetHash(entry.linearized))
    IN \E k \in 1..Len(bucket) :
          /\ bitsetEquals(entry.linearized, bucket[k].linearized)
          /\ mapStateEquals(objects, entry.state, bucket[k].state)

newCacheEntryInPlace(r) ==
    [linearized |-> bitsetSet(bitsetClone(r.linearized), r.nodes[r.entry].id),
     state |-> stepInPlaceAt(r).state]

acceptsInPlace(r) ==
    /\ stepInPlaceAt(r).ok
    /\ ~cacheContainsInPlace(stepInPlaceAt(r).objects, r.cache, newCacheEntryInPlace(r))

\* the accepted call: the cache entry and the live state are the map Step
\* returned, the frame keeps the map that was live
doAcceptInPlace(r) ==
    LET ce == newCacheEntryInPlace(r)
        nodes == lift(r.nodes, r.entry)
    IN [r EXCEPT !.cache = cacheAppend(r.cache, bitsetHash(ce.linearized), ce),
                 !.calls = Append(r.calls, [entry |-> r.entry, state |-> r.state]),
                 !.state = ce.state,
                 !.linearized = bitsetSet(r.linearized, r.nodes[r.entry].id),
                 !.nodes = nodes,
                 !.entry = nodes[HEAD].next,
                 !.objects = stepInPlaceAt(r).objects]

\* the skipped call: Step has run all the same
doSkipInPlace(r) ==
    [r EXCEPT !.entry = r.nodes[r.entry].next, !.objects = stepInPlaceAt(r).objects]

\* a history of operations checked with the mutating model, no timeout
InitInPlace ==
    /\ \E ops \in Histories(MaxOps) : partitions = <<ops>>
    /\ computeInfo \in BOOLEAN
    /\ timeout = 0
    /\ events = << >>
    /\ history \in entriesOutcomes(partitions)
    /\ workers = [i \in 1..Len(history) |-> checkSingleInPlaceInit(history[i], computeInfo)]
    /\ results = << >>
    /\ longest = [i \in 1..Len(history) |-> << >>]
    /\ kill = 0
    /\ timeoutChan = armTimeout(timeout)
    /\ dpc = "select"
    /\ ok = TRUE
    /\ timedOut = FALSE
    /\ count = 0
    /\ result = "none"
    /\ info = [history |-> << >>, partialLinearizations |-> << >>]
    /\ folded = {}

AcceptInPlace ==
    \E i \in 1..Len(workers) :
        /\ AtLoop(i) /\ loopCond(workers[i]) /\ kill = 0
        /\ atCall(workers[i]) /\ acceptsInPlace(workers[i])
        /\ workers' = [workers EXCEPT ![i] = doAcceptInPlace(@)]
        /\ UNCHANGED <<inputVars, workerVars>>

SkipInPlace ==
    \E i \in 1..Len(workers) :
        /\ AtLoop(i) /\ loopCond(workers[i]) /\ kill = 0
        /\ atCall(workers[i]) /\ ~acceptsInPlace(workers[i])
        /\ workers' = [workers EXCEPT ![i] = doSkipInPlace(@)]
        /\ UNCHANGED <<inputVars, workerVars>>

NextInPlace ==
    \/ Complete
    \/ AcceptInPlace
    \/ SkipInPlace
    \/ Exhausted
    \/ Backtrack
    \/ Store
    \/ Send
    \/ Receive
    \/ Finish

SpecInPlace == InitInPlace /\ [][NextInPlace]_vars

RECURSIVE derefFrom(_, _, _)
\* the first k records of a list of frames or of cache entries, each state
\* replaced by the value of its map
derefFrom(objects, s, k) ==
    IF k = 0 THEN << >>
    ELSE Append(derefFrom(objects, s, k - 1), [s[k] EXCEPT !.state = objects[@]])

\* the search with every state replaced by the value of its map
pureView(r) ==
    [pc |-> r.pc, ok |-> r.ok, why |-> r.why, entry |-> r.entry, nodes |-> r.nodes,
     calls |-> derefFrom(r.objects, r.calls, Len(r.calls)),
     state |-> r.objects[r.state],
     linearized |-> r.linearized,
     cache |-> [h \in DOMAIN r.cache |-> derefFrom(r.objects, r.cache[h], Len(r.cache[h]))],
     longest |-> r.longest, heap |-> r.heap]

\* C12: because Step is always invoked on state.Clone(), a model whose Step
\* mutates its state argument and returns it yields the same check result as
\* the purely functional model: at every point of the search the live state,
\* the saved states of the calls stack and the states of the cache have the
\* values they have at that point of the search with the functional model,
\* and the result and the partial linearizations are those of that search.
C12_InPlaceSameAsPure ==
    /\ onRun(checkSingleInit(history[1], computeInfo), pureView(searchOf(1)))
    /\ Done => sameAsSingleRun

\* a finished check that is Ok after a backtrack, with three frames on the
\* stack: Step has written into a clone since the first frame was pushed, so
\* the map of that frame and the live map differ, and Step has run on more
\* clones than there are frames
C12_Witness ==
    LET r == workers[1]
    IN /\ Done /\ result = "Ok"
       /\ Len(r.calls) = 3 /\ Len(r.heap) >= 2
       /\ r.objects[r.calls[1].state] # r.objects[r.state]
       /\ Len(r.objects) > 4

\* ------------------------------------------------------------------ claims on the steps of the search
\* the (bitset, state) pairs of a cache
cacheEntrySet(cache) == UNION {Range(cache[h]) : h \in DOMAIN cache}

\* no pair is in the cache twice
noPairTwice(cache) ==
    /\ \A h \in DOMAIN cache :
          \A j \in 1..Len(cache[h]) : \A k \in 1..Len(cache[h]) :
              cache[h][j] = cache[h][k] => j = k
    /\ \A h \in DOMAIN cache : \A g \in DOMAIN cache :
          Range(cache[h]) \cap Range(cache[g]) # {} => h = g

\* w2 is the outcome the claim gives for the call at the scan pointer of w
callOutcome(w, w2) ==
    LET call == w.nodes[w.entry]
        stepped == registerStep(w.state, call.value.input, w.nodes[call.match].value.output)
        pair == [linearized |-> bitsetSet(w.linearized, call.id), state |-> stepped.state]
    IN IF stepped.ok /\ pair \notin cacheEntrySet(w.cache)
       THEN /\ w2.calls = Append(w.calls, [entry |-> w.entry, state |-> w.state])
            /\ w2.state = stepped.state
            /\ w2.linearized = pair.linearized
            /\ listFrom(w2.nodes, HEAD)
                  = SelectSeq(listFrom(w.nodes, HEAD), LAMBDA x : x \notin {w.entry, call.match})
            /\ w2.entry = w2.nodes[HEAD].next
            /\ cacheEntrySet(w2.cache) = cacheEntrySet(w.cache) \cup {pair}
       ELSE /\ w2.entry = call.next
            /\ w2.calls = w.calls
            /\ w2.state = w.state
            /\ w2.linearized = w.linearized
            /\ w2.nodes = w.nodes
            /\ cacheBuckets(w2.cache) = cacheBuckets(w.cache)

\* every step a worker takes from a call node has that outcome
callSteps ==
    \A i \in 1..Len(workers) :
        (/\ workers[i].pc = "loop" /\ loopCond(workers[i]) /\ atCall(workers[i])
         /\ workers'[i] # workers[i] /\ workers'[i].pc = "loop")
            => callOutcome(workers[i], workers'[i])

\* C21: at a call node the call is accepted (frame pushed, state advanced, bit
\* set, pair lifted, scan reset to head.next) if and only if Step returns ok
\* and the pair (linearized with the id added, new state) is not in the cache,
\* and then exactly that pair is added to the cache; otherwise the scan pointer
\* moves to entry.next and state, linearized, calls, cache and list are
\* unchanged. No (bitset, state) pair is pushed twice during one search.
C21_AcceptIffNew ==
    /\ [](\A i \in 1..Len(workers) : noPairTwice(workers[i].cache))
    /\ [][callSteps]_vars

\* a loop-top, with a frame on the stack, at a call that Step accepts but
\* whose pair is already cached
C21_Witness ==
    \E i \in 1..Len(workers) :
        LET w == workers[i]
        IN /\ w.pc = "loop" /\ loopCond(w) /\ atCall(w)
           /\ stepAt(w).ok /\ cacheContains(w.cache, newCacheEntry(w))
           /\ Len(w.calls) >= 1

RECURSIVE liftedBy(_, _, _)
\* the list left by lifting, from the full list, the calls of the first k
\* frames in push order
liftedBy(nodes, calls, k) ==
    IF k = 0 THEN nodes ELSE lift(liftedBy(nodes, calls, k - 1), calls[k].entry)

RECURSIVE setBy(_, _, _, _)
\* the bitset left by setting, from the empty one, the ids of the first k frames
setBy(b, nodes, calls, k) ==
    IF k = 0 THEN b ELSE bitsetSet(setBy(b, nodes, calls, k - 1), nodes[calls[k].entry].id)

\* list, bitset and state of the search of partition p are the ones its calls
\* stack determines: what they were when the top frame was pushed, changed by
\* that acceptance only
determinedByStack(p, w, calls) ==
    /\ w.nodes = liftedBy(checkSingleInit(history[p], computeInfo).nodes, calls, Len(calls))
    /\ w.linearized = setBy(checkSingleInit(history[p], computeInfo).linearized,
                            checkSingleInit(history[p], computeInfo).nodes, calls, Len(calls))
    /\ w.state = stepFrames([w EXCEPT !.calls = calls], Len(calls)).state

\* w2 is the outcome the claim gives for the return node at the scan pointer
\* of the search w of partition p
returnOutcome(p, w, w2) ==
    IF Len(w.calls) = 0
    THEN w2.pc = "returned" /\ ~w2.ok
    ELSE \/ kill # 0 /\ w2.pc = "returned" /\ ~w2.ok
         \/ /\ w2.pc = "loop"
            /\ w2.calls = Front(w.calls)
            /\ w2.state = Last(w.calls).state
            /\ determinedByStack(p, w2, Front(w.calls))
            /\ w2.entry = w2.nodes[Last(w.calls).entry].next
            /\ cacheBuckets(w2.cache) = cacheBuckets(w.cache)

\* every step a worker takes from a return node has that outcome
returnSteps ==
    \A i \in 1..Len(workers) :
        (/\ workers[i].pc = "loop" /\ loopCond(workers[i]) /\ ~atCall(workers[i])
         /\ workers'[i] # workers[i])
            => returnOutcome(i, workers[i], workers'[i])

\* C22: at a return node with a non-empty calls stack the backtrack step pops
\* the top frame, restores linearized, state and the list to what they were
\* immediately before that frame's call was accepted (what the frames below
\* determine), sets the scan pointer to the node after the popped call and
\* leaves the cache unchanged; with an empty calls stack the search returns
\* false.
C22_BacktrackRestores ==
    /\ [](\A i \in 1..Len(workers) :
             workers[i].pc = "loop" => determinedByStack(i, workers[i], workers[i].calls))
    /\ [][returnSteps]_vars

\* a loop-top right after a backtrack that recorded a partial linearization
\* and left one frame on the stack: the scan pointer is after the popped call
C22_Witness ==
    \E i \in 1..Len(workers) :
        LET w == workers[i]
        IN /\ w.pc = "loop" /\ Len(w.calls) = 1 /\ Len(w.heap) >= 1
           /\ \E c \in liveCalls(w.nodes) :
                 /\ w.nodes[c].next = w.entry
                 /\ Last(w.heap) = Append(callIds(w), w.nodes[c].id)

RECURSIVE stateAfter(_, _, _)
\* Step applied to the operations of ops in the order q, starting in state
stateAfter(ops, q, state) ==
    IF q = << >> THEN [ok |-> TRUE, state |-> state]
    ELSE LET r == registerStep(state, ops[Head(q)].Input, ops[Head(q)].Output)
         IN IF r.ok THEN stateAfter(ops, Tail(q), r.state) ELSE [ok |-> FALSE, state |-> r.state]

\* q orders exactly the operations of b, respects real-time precedence (no
\* operation left out precedes one of q), and Step accepts it from Init()
\* ending in s
reaches(ops, q, s) ==
    /\ respectsRealTime(ops, q)
    /\ \A a \in (1..Len(ops)) \ Range(q) : \A c \in Range(q) : ~precedes(ops, a, c)
    /\ stateAfter(ops, q, registerInit) = [ok |-> TRUE, state |-> s]

\* every cached pair is reached by an order of its operations
cachedAreReached ==
    \A p \in 1..Len(workers) :
        \A ce \in cacheEntrySet(workers[p].cache) :
            \E q \in PermSeqs({id + 1 : id \in BitsOf(ce.linearized)}) :
                reaches(partitions[p], q, ce.state)

\* a step that inserts into the cache inserts the ids of the calls stack,
\* the accepted one included, with the state Step returned
insertSteps ==
    \A i \in 1..Len(workers) :
        cacheEntrySet(workers'[i].cache) # cacheEntrySet(workers[i].cache) =>
            /\ cacheEntrySet(workers'[i].cache) \ cacheEntrySet(workers[i].cache)
                  = {[linearized |-> workers'[i].linearized, state |-> workers'[i].state]}
            /\ BitsOf(workers'[i].linearized) = Range(callIds(workers'[i]))
            /\ Len(workers'[i].calls) = Len(workers[i].calls) + 1
            /\ workers'[i].state = stepAt(workers[i]).state

\* C23: every cache entry (b, s) was inserted when the ids on the calls stack
\* plus the newly accepted id were exactly b and s was the state Step returned
\* for that acceptance: for every cached (b, s) there is an ordering of exactly
\* the operations in b, consistent with real-time precedence, that Step
\* accepts from Init() and that ends in s.
C23_CachedPairsReached ==
    /\ []cachedAreReached
    /\ [][insertSteps]_vars

\* a search that has backtracked and whose cache holds three pairs, one of
\* them with two operations and a state other than the initial one
C23_Witness ==
    \E p \in 1..Len(workers) :
        LET w == workers[p]
        IN /\ Len(w.heap) >= 1
           /\ Cardinality(cacheEntrySet(w.cache)) >= 3
           /\ \E ce \in cacheEntrySet(w.cache) :
                 Cardinality(BitsOf(ce.linearized)) = 2 /\ ce.state # registerInit

\* the pairs a search over n operations can look up
probes(n) ==
    {[linearized |-> [k \in 1..Len(newBitset(n)) |-> S], state |-> st] :
        S \in SUBSET (0..(n - 1)), st \in 0..MaxVal}

\* C24: cacheContains(cache, (b, s)) is true if and only if a pair (b', s')
\* was inserted with b' elementwise equal to b and s.Equals(s'): two different
\* bitsets never produce a hit even if their hashes collide, and an inserted
\* pair is always found again.
C24_ContainsIffInserted ==
    \A p \in 1..Len(workers) :
        /\ \A pr \in probes(workers[p].n) :
              cacheContains(workers[p].cache, pr) <=> pr \in cacheEntrySet(workers[p].cache)
        /\ \A ce \in cacheEntrySet(workers[p].cache) :
              /\ cacheContains(workers[p].cache, ce)
              /\ ce \in Range(cacheBucket(workers[p].cache, bitsetHash(ce.linearized)))

\* a cache that holds a pair while a pair with another bitset of the same
\* hash and the same state was never inserted
C24_Witness ==
    \E p \in 1..Len(workers) :
        \E ce \in cacheEntrySet(workers[p].cache) :
            \E pr \in probes(workers[p].n) :
                /\ pr.linearized # ce.linearized
                /\ bitsetHash(pr.linearized) = bitsetHash(ce.linearized)
                /\ pr.state = ce.state
                /\ pr \notin cacheEntrySet(workers[p].cache)
                /\ Cardinality(cacheEntrySet(workers[p].cache)) >= 3

\* ------------------------------------------------------------------ the poll of the cancel flag
\* checkSingle with the read of kill at the top of the loop kept apart from
\* the iteration that follows it: pc is "body" between the two. after counts
\* the iterations a worker ran through while the flag was set, and cancelled
\* tells whether the flag was set when it returned

\* the checks in which the flag can be set: a timeout, or several partitions
PollInputs == {in \in SingleInputs \cup PartInputs : in.timeout > 0 \/ Len(in.parts) > 1}

InitPoll ==
    /\ \E in \in PollInputs :
          /\ partitions = in.parts
          /\ computeInfo = in.verbose
          /\ timeout = in.timeout
    /\ events = << >>
    /\ history \in entriesOutcomes(partitions)
    /\ workers = [i \in 1..Len(history) |->
                     checkSingleInit(history[i], computeInfo) @@ [after |-> 0, cancelled |-> FALSE]]
    /\ results = << >>
    /\ longest = [i \in 1..Len(history) |-> << >>]
    /\ kill = 0
    /\ timeoutChan = armTimeout(timeout)
    /\ dpc = "select"
    /\ ok = TRUE
    /\ timedOut = FALSE
    /\ count = 0
    /\ result = "none"
    /\ info = [history |-> << >>, partialLinearizations |-> << >>]
    /\ folded = {}

AtBody(i) == i \in 1..Len(workers) /\ workers[i].pc = "body"

\* the state a worker is in at the end of an iteration that left it in r
endOfBody(r) ==
    [r EXCEPT !.pc = IF r.pc = "body" THEN "loop" ELSE r.pc,
              !.after = IF kill # 0 THEN @ + 1 ELSE @,
              !.cancelled = (r.pc = "returned" /\ kill # 0)]

\* mutant: the loop goes on without looking at the flag
PollContinueBlind ==
    \E i \in 1..Len(workers) :
        /\ AtLoop(i) /\ loopCond(workers[i])
        /\ workers' = [workers EXCEPT ![i].pc = "body"]
        /\ UNCHANGED <<inputVars, workerVars>>

\* headEntry.next != nil and atomic.LoadInt32(kill) == 0
PollContinue ==
    \E i \in 1..Len(workers) :
        /\ AtLoop(i) /\ loopCond(workers[i]) /\ kill = 0
        /\ workers' = [workers EXCEPT ![i].pc = "body"]
        /\ UNCHANGED <<inputVars, workerVars>>

\* headEntry.next != nil and atomic.LoadInt32(kill) != 0: return false, longest
PollKilled ==
    \E i \in 1..Len(workers) :
        /\ AtLoop(i) /\ loopCond(workers[i]) /\ kill # 0
        /\ workers' = [workers EXCEPT ![i] = [doKilled(@) EXCEPT !.cancelled = TRUE]]
        /\ UNCHANGED <<inputVars, workerVars>>

\* headEntry.next == nil: the loop ends without a read of kill
PollComplete ==
    \E i \in 1..Len(workers) :
        /\ AtLoop(i) /\ ~loopCond(workers[i])
        /\ workers' = [workers EXCEPT ![i] = [doComplete(@) EXCEPT !.cancelled = (kill # 0)]]
        /\ UNCHANGED <<inputVars, workerVars>>

AcceptBody ==
    \E i \in 1..Len(workers) :
        /\ AtBody(i) /\ atCall(workers[i]) /\ accepts(workers[i])
        /\ workers' = [workers EXCEPT ![i] = endOfBody(doAccept(@))]
        /\ UNCHANGED <<inputVars, workerVars>>

SkipBody ==
    \E i \in 1..Len(workers) :
        /\ AtBody(i) /\ atCall(workers[i]) /\ ~accepts(workers[i])
        /\ workers' = [workers EXCEPT ![i] = endOfBody(doSkip(@))]
        /\ UNCHANGED <<inputVars, workerVars>>

ExhaustedBody ==
    \E i \in 1..Len(workers) :
        /\ AtBody(i) /\ ~atCall(workers[i]) /\ Len(workers[i].calls) = 0
        /\ workers' = [workers EXCEPT ![i] = endOfBody(doExhausted(@))]
        /\ UNCHANGED <<inputVars, workerVars>>

BacktrackBody ==
    \E i \in 1..Len(workers) :
        /\ AtBody(i) /\ ~atCall(workers[i]) /\ Len(workers[i].calls) > 0
        /\ workers' = [workers EXCEPT ![i] = endOfBody(doBacktrack(@))]
        /\ UNCHANGED <<inputVars, workerVars>>

NextPoll ==
    \/ PollContinue
    \/ PollKilled
    \/ PollComplete
    \/ AcceptBody
    \/ SkipBody
    \/ ExhaustedBody
    \/ BacktrackBody
    \/ Store
    \/ Send
    \/ Receive
    \/ Timeout
    \/ Drain
    \/ Finish

SpecPoll == InitPoll /\ [][NextPoll]_vars

\* a worker runs through at most one iteration while the flag is set
oneMoreIteration == \A i \in 1..Len(workers) : workers[i].after <= 1

\* C25 as stated: after the driver sets the cancel flag, every worker that has
\* not yet returned observes the flag at the top of its loop and returns
\* (false, longest) after at most one further loop iteration.
C25_CancelReturnsFalse ==
    /\ oneMoreIteration
    /\ \A i \in 1..Len(workers) : workers[i].cancelled => ~workers[i].ok

\* with the flag set, the step a worker takes from the top of its loop is its
\* return: false when the list is not empty, true when it is
topSteps ==
    \A i \in 1..Len(workers) :
        (kill # 0 /\ workers[i].pc = "loop" /\ workers'[i] # workers[i]) =>
            /\ workers'[i].pc = "returned"
            /\ workers'[i].ok <=> ~loopCond(workers[i])
            /\ workers'[i].longest = workers[i].longest \/ workers'[i].ok

\* C25 amended: after the driver sets the cancel flag, every worker that has
\* not yet returned returns after at most one further loop iteration (at most
\* one further Step call): (false, longest) when it observes the flag at the
\* top of its loop or runs out of candidates, and (true, longest) when that
\* iteration lifted the last pair, the loop then ending on its condition
\* without a read of the flag.
C25_CancelReturnsAfterOne ==
    /\ []oneMoreIteration
    /\ [](\A i \in 1..Len(workers) :
             (workers[i].cancelled /\ workers[i].ok) =>
                 workers[i].why = "complete" /\ ~loopCond(workers[i]))
    /\ [][topSteps]_vars

\* a worker that ran through one iteration after the flag was set, observed
\* the flag at the next loop-top and returned false
C25_Witness ==
    \E i \in 1..Len(workers) :
        /\ workers[i].after = 1 /\ workers[i].cancelled
        /\ workers[i].why = "killed" /\ ~workers[i].ok
        /\ Len(workers[i].calls) >= 1

\* ------------------------------------------------------------------ claims on the driver
\* a step that sets the cancel flag in verbose mode is the timeout
verboseCancelSteps == (computeInfo /\ kill' # kill) => (~timedOut /\ timedOut' /\ timeoutChan)

\* C26: in verbose mode a worker reporting not-linearizable never causes the
\* cancel flag to be set: the flag is set only by timeout expiry, and with no
\* timeout every worker runs its search to completion before the driver
\* returns.
C26_VerboseNeverCancels ==
    /\ []((computeInfo /\ ~timedOut) => kill = 0)
    /\ []((computeInfo /\ timeout = 0 /\ Done) =>
             \A i \in 1..Len(workers) :
                 workers[i].pc = "done" /\ workers[i].why \in {"complete", "exhausted"})
    /\ [][verboseCancelSteps]_vars

\* a verbose check without timeout that returned Illegal: one worker found
\* its partition not linearizable, another ran to a complete linearization,
\* and the flag was never set
C26_Witness ==
    /\ Done /\ computeInfo /\ timeout = 0 /\ result = "Illegal" /\ kill = 0
    /\ \E i \in 1..Len(workers) : \E j \in 1..Len(workers) :
          /\ workers[i].why = "exhausted" /\ workers[j].why = "complete"
          /\ Len(workers[j].calls) >= 1

\* ------------------------------------------------------------------ longer histories
MaxWideOps == 4      \* operations of a history checked verbosely
MaxWideVal == 2      \* its register values range over 0..MaxWideVal

\* the intervals of its operations: two concurrent operations followed by two
\* concurrent operations, no two timestamps equal
WideSlots == <<<<0, 3>>, <<1, 2>>, <<4, 7>>, <<5, 6>>>>

\* the puts and gets over the k-th interval
WideOps(k) ==
    {putOperation(v, WideSlots[k][1], WideSlots[k][2]) : v \in 1..MaxWideVal}
    \cup {getOperation(v, WideSlots[k][1], WideSlots[k][2]) : v \in 0..MaxWideVal}

\* verbose checks, without timeout, of single-partition histories of up to
\* MaxWideOps operations, the k-th over the k-th interval
WideHistories ==
    UNION {{ops \in SeqsOver(UNION {WideOps(k) : k \in 1..n}, n) :
               \A k \in 1..n : ops[k] \in WideOps(k)} : n \in 0..MaxWideOps}

InitWide ==
    /\ \E ops \in WideHistories : partitions = <<ops>>
    /\ computeInfo = TRUE
    /\ timeout = 0
    /\ events = << >>
    /\ history \in entriesOutcomes(partitions)
    /\ workers = [i \in 1..Len(history) |-> checkSingleInit(history[i], computeInfo)]
    /\ results = << >>
    /\ longest = [i \in 1..Len(history) |-> << >>]
    /\ kill = 0
    /\ timeoutChan = armTimeout(timeout)
    /\ dpc = "select"
    /\ ok = TRUE
    /\ timedOut = FALSE
    /\ count = 0
    /\ result = "none"
    /\ info = [history |-> << >>, partialLinearizations |-> << >>]
    /\ folded = {}

NextWide ==
    \/ Complete
    \/ Accept
    \/ Skip
    \/ Exhausted
    \/ Backtrack
    \/ Store
    \/ Send
    \/ Receive
    \/ Finish

SpecWide == InitWide /\ [][NextWide]_vars

\* C27: in every verbose result the partial linearizations of a partition are
\* pairwise distinct as id sequences (deduplicating longest[*] by reference
\* never emits two equal sequences), and each is non-empty with all its ids in
\* [0, n).
C27_PartialsDistinct ==
    (Done /\ computeInfo) =>
        \A p \in 1..Len(history) :
            LET pl == info.partialLinearizations[p]
            IN /\ \A j \in 1..Len(pl) : \A k \in 1..Len(pl) : pl[j] = pl[k] => j = k
               /\ \A k \in 1..Len(pl) :
                     /\ pl[k] # << >>
                     /\ Range(pl[k]) \subseteq 0..(workers[p].n - 1)

\* a verbose result with two partial linearizations for one partition, of
\* the same operations in different orders
C27_Witness ==
    /\ Done /\ computeInfo /\ result = "Illegal"
    /\ \E p \in 1..Len(history) :
          LET pl == info.partialLinearizations[p]
          IN \E j \in 1..Len(pl) : \E k \in 1..Len(pl) :
                j # k /\ Len(pl[j]) = 3 /\ Range(pl[j]) \cap Range(pl[k]) # {}

\* ------------------------------------------------------------------ claims on the entries
\* the ids of the events before the k-th
idsBefore(evs, k) == {evs[j].Id : j \in 1..(k - 1)}

\* out is evs with its ids replaced by 0..n-1 in order of first appearance
densely(evs, out) ==
    /\ Len(out) = Len(evs)
    /\ {out[k].Id : k \in 1..Len(out)} = 0..(Cardinality({evs[k].Id : k \in 1..Len(evs)}) - 1)
    /\ \A j \in 1..Len(evs) : \A k \in 1..Len(evs) :
          (out[j].Id = out[k].Id) <=> (evs[j].Id = evs[k].Id)
    /\ \A k \in 1..Len(evs) :
          /\ evs[k].Id \notin idsBefore(evs, k) => out[k].Id = Cardinality(idsBefore(evs, k))
          /\ out[k].ClientId = evs[k].ClientId
          /\ out[k].Kind = evs[k].Kind
          /\ out[k].Value = evs[k].Value

\* C28: for an event-form partition with n distinct operation ids, renumber
\* maps the ids to exactly 0..n-1 in order of first appearance, gives two
\* events the same new id if and only if they had the same old id, and changes
\* no other field or the order of events; consequently every id used to index
\* the bitset and the longest array in checkSingle is in [0, n).
C28_RenumberDense ==
    \A p \in 1..Len(events) :
        /\ densely(events[p], renumber(events[p]))
        /\ \A k \in 1..Len(history[p]) : history[p][k].id = renumber(events[p])[k].Id
        /\ WellFormedEvents(events[p]) =>
              workers[p].n = Cardinality({events[p][k].Id : k \in 1..Len(events[p])})
        /\ BitsOf(workers[p].linearized) \subseteq 0..(workers[p].n - 1)
        /\ Range(callIds(workers[p])) \subseteq 0..(workers[p].n - 1)
        /\ \A h \in 1..Len(workers[p].heap) :
              Range(workers[p].heap[h]) \subseteq 0..(workers[p].n - 1)

\* a search of a well-formed history of two operations whose first event had
\* id 1, with the bit of the new id 1 set and a partial linearization recorded
C28_Witness ==
    /\ WellFormedEvents(events[1]) /\ Len(events[1]) = 4
    /\ events[1][1].Id = 1 /\ history[1][1].id = 0
    /\ 1 \in BitsOf(workers[1].linearized)
    /\ Len(workers[1].heap) >= 1

\* the positions in h of the entries of the given kind and id
entriesOf(h, kind, id) == {k \in 1..Len(h) : h[k].kind = kind /\ h[k].id = id}

\* h holds, for the k-th operation of ops, one call and one return entry with
\* id k-1
entriesOfOperations(ops, h) ==
    /\ Len(h) = 2 * Len(ops)
    /\ \A k \in 1..Len(ops) :
          /\ \E c \in 1..Len(h) :
                /\ entriesOf(h, callEntry, k - 1) = {c}
                /\ h[c].value = [input |-> ops[k].Input]
                /\ h[c].time = ops[k].Call /\ h[c].clientId = ops[k].ClientId
          /\ \E r \in 1..Len(h) :
                /\ entriesOf(h, returnEntry, k - 1) = {r}
                /\ h[r].value = [output |-> ops[k].Output]
                /\ h[r].time = ops[k].Return /\ h[r].clientId = ops[k].ClientId

\* h is ordered by timestamp, calls before the returns of the same timestamp
orderedByTime(h) ==
    \A i \in 1..Len(h) : \A j \in 1..Len(h) :
        i < j => /\ h[i].time <= h[j].time
                 /\ h[i].time = h[j].time => ~(h[i].kind = returnEntry /\ h[j].kind = callEntry)

\* C29: makeEntries gives the k-th operation of a partition id k (counting
\* from 0), emits one call and one return entry per operation, and returns the
\* entries ordered by timestamp ascending with every call placed before every
\* return that has the same timestamp.
C29_EntriesOrdered ==
    \A p \in 1..Len(partitions) :
        /\ history[p] \in makeEntries(partitions[p])
        /\ \A h \in makeEntries(partitions[p]) :
              entriesOfOperations(partitions[p], h) /\ orderedByTime(h)

\* the entries of three operations, in which the call of a later operation
\* stands before the return of an earlier one at the same timestamp, and
\* before the call of an earlier one
C29_Witness ==
    /\ Len(partitions) = 1 /\ Len(partitions[1]) = 3
    /\ \E i \in 1..Len(history[1]) : \E j \in 1..Len(history[1]) :
          /\ i < j /\ history[1][i].time = history[1][j].time
          /\ history[1][i].kind = callEntry /\ history[1][j].kind = returnEntry
          /\ history[1][i].id > history[1][j].id
    /\ \E i \in 1..Len(history[1]) : \E j \in 1..Len(history[1]) :
          /\ i < j /\ history[1][i].kind = callEntry /\ history[1][j].kind = callEntry
          /\ history[1][i].id > history[1][j].id

\* the list from root holds the nodes of the entries in the order of the
\* entries, next and prev agreeing, calls matched with the later return of
\* their id and returns with nothing
linkedAs(entries, nodes, root) ==
    /\ listFrom(nodes, root) = [k \in 1..Len(entries) |-> k]
    /\ root = (IF Len(entries) = 0 THEN NIL ELSE 1)
    /\ \A k \in 1..Len(entries) :
          /\ nodes[k].value = entries[k].value /\ nodes[k].id = entries[k].id
          /\ nodes[k].next = (IF k = Len(entries) THEN NIL ELSE k + 1)
          /\ nodes[k].prev = (IF k = 1 THEN NIL ELSE k - 1)
          /\ nodes[k].next # NIL => nodes[nodes[k].next].prev = k
          /\ nodes[k].prev # NIL => nodes[nodes[k].prev].next = k
          /\ IF entries[k].kind = returnEntry
             THEN nodes[k].match = NIL
             ELSE /\ nodes[k].match \in (k + 1)..Len(entries)
                  /\ entries[nodes[k].match].kind = returnEntry
                  /\ entries[nodes[k].match].id = entries[k].id

MaxAnnotations == 1  \* annotations added to an info

\* the Start and End an annotation is given
AnnotationTimes == {-5, 2, 9}

Annotation(start, end) == [Start |-> start, End |-> end]

\* the annotations of an info; a LinearizationInfo checkParallel built has none
annotationsOf(li) == IF "annotations" \in DOMAIN li THEN li.annotations ELSE << >>

RECURSIVE appendAnnotations(_, _)
\* the loop of AddAnnotations: an End before the Start becomes the Start
appendAnnotations(old, annotations) ==
    IF annotations = << >> THEN old
    ELSE LET elem == Head(annotations)
             end == IF elem.End < elem.Start THEN elem.Start ELSE elem.End
         IN appendAnnotations(Append(old, Annotation(elem.Start, end)), Tail(annotations))

\* the key set of allTimestamps
allTimestamps(li) ==
    UNION {{li.history[p][k].time : k \in 1..Len(li.history[p])} : p \in 1..Len(li.history)}
    \cup UNION {{a.Start, a.End} : a \in Range(annotationsOf(li))}

RECURSIVE sortTimestamps(_)
\* sort.Slice over the distinct timestamps
sortTimestamps(S) ==
    IF S = {} THEN << >>
    ELSE LET least == CHOOSE t \in S : \A u \in S : t <= u
         IN <<least>> \o sortTimestamps(S \ {least})

\* mutant: a timestamp is scaled instead of ranked
timestampMappingScaled(li) == [ts \in allTimestamps(li) |-> ts * 100]

timestampMapping(li) ==
    LET timestamps == sortTimestamps(allTimestamps(li))
    IN [ts \in allTimestamps(li) |-> (posIn(timestamps, ts) - 1) * 100]

\* the possible results of sort.Slice(partials, len(partials[i]) > len(partials[j])),
\* which is not stable
sortPartials(partials) ==
    {q \in {[k \in 1..Len(partials) |-> partials[p[k]]] : p \in PermSeqs(1..Len(partials))} :
        \A j \in 1..Len(q) : \A k \in 1..Len(q) : j < k => ~(Len(q[k]) > Len(q[j]))}

\* largestSize[histId], 0 for a missing key
sizeOf(largestSize, histId) == IF histId \in DOMAIN largestSize THEN largestSize[histId] ELSE 0

\* mutant: the index is overwritten by every partial linearization holding the id
largestOfPartialAlways(partial, i, largest) ==
    LET upd == Range(partial)
    IN [size |-> [id \in DOMAIN largest.size \cup upd |->
                     IF id \in upd THEN Len(partial) ELSE largest.size[id]],
        index |-> [id \in DOMAIN largest.index \cup upd |->
                     IF id \in upd THEN i ELSE largest.index[id]]]

\* the inner loop's updates of largestSize and largestIndex for partials[i]
largestOfPartial(partial, i, largest) ==
    LET upd == {histId \in Range(partial) : sizeOf(largest.size, histId) < Len(partial)}
    IN [size |-> [id \in DOMAIN largest.size \cup upd |->
                     IF id \in upd THEN Len(partial) ELSE largest.size[id]],
        index |-> [id \in DOMAIN largest.index \cup upd |->
                     IF id \in upd THEN i ELSE largest.index[id]]]

RECURSIVE largestFrom(_, _, _)
\* the loop over the sorted partials, i counting from 0
largestFrom(partials, i, largest) ==
    IF i = Len(partials) THEN largest
    ELSE largestFrom(partials, i + 1, largestOfPartial(partials[i + 1], i, largest))

RECURSIVE describeFrom(_, _, _)
\* the linearizationSteps of one partial: each id with the state after its step
describeFrom(entries, partial, state) ==
    IF partial = << >> THEN << >>
    ELSE LET histId == Head(partial)
             r == registerStep(state, entries[callValue(entries, histId)].value.input,
                               entries[returnValue(entries, histId)].value.output)
         IN <<[Index |-> histId, StateDescription |-> r.state]>>
            \o describeFrom(entries, Tail(partial), r.state)

\* the historyElements of one partition
historyElements(entries, timeMap) ==
    [k \in 1..(Len(entries) \div 2) |->
        [Start |-> timeMap[entries[callValue(entries, k - 1)].time],
         End |-> timeMap[entries[returnValue(entries, k - 1)].time]]]

\* partitionVisualizationData for one partition whose partials are sorted
partitionData(entries, partials, timeMap) ==
    [History |-> historyElements(entries, timeMap),
     PartialLinearizations |->
        [k \in 1..Len(partials) |-> describeFrom(entries, partials[k], registerInit)],
     Largest |-> largestFrom(partials, 0, [size |-> << >>, index |-> << >>]).index]

\* AddAnnotations on the info a verbose check returned
AddAnnotations ==
    /\ dpc = "done" /\ computeInfo
    /\ \E annotations \in UNION {SeqsOver({Annotation(s, e) : s \in AnnotationTimes,
                                                            e \in AnnotationTimes}, n) :
                                   n \in 1..MaxAnnotations} :
          info' = [history |-> info.history,
                   partialLinearizations |-> info.partialLinearizations,
                   annotations |-> appendAnnotations(annotationsOf(info), annotations)]
    /\ dpc' = "annotated"
    /\ UNCHANGED <<inputVars, workers, results, longest, kill, ok, timedOut, count, result, folded>>

\* computeVisualizationData(model, info): the partials of info are sorted in
\* place, the data is kept next to them; a replay that fails panics
Visualize ==
    /\ dpc \in {"done", "annotated"} /\ computeInfo
    /\ \E sorted \in {f \in [1..Len(info.history) ->
                               UNION {sortPartials(info.partialLinearizations[p]) :
                                        p \in 1..Len(info.history)}] :
                        \A p \in 1..Len(info.history) :
                            f[p] \in sortPartials(info.partialLinearizations[p])} :
          IF \A p \in 1..Len(info.history) : \A k \in 1..Len(sorted[p]) :
                replays(info.history[p], sorted[p][k])
          THEN /\ info' = [history |-> info.history,
                           partialLinearizations |-> sorted,
                           annotations |-> annotationsOf(info),
                           data |-> [p \in 1..Len(info.history) |->
                                       partitionData(info.history[p], sorted[p],
                                                     timestampMapping(info))]]
               /\ dpc' = "visualized"
          ELSE /\ info' = info
               /\ dpc' = "panic"
    /\ UNCHANGED <<inputVars, workers, results, longest, kill, ok, timedOut, count, result, folded>>

MaxVisualOps == 5    \* operations of a history that is visualized

\* the intervals of its operations: two concurrent operations, then an
\* operation that overlaps both the operation before and the one after it
VisualSlots == <<<<0, 3>>, <<1, 2>>, <<4, 6>>, <<5, 9>>, <<7, 8>>>>

\* the puts and gets over the k-th interval
VisualOps(k) ==
    {putOperation(v, VisualSlots[k][1], VisualSlots[k][2]) : v \in 1..MaxWideVal}
    \cup {getOperation(v, VisualSlots[k][1], VisualSlots[k][2]) : v \in 0..MaxWideVal}

RECURSIVE VisualSeqs(_)
\* the histories of n operations, the k-th over the k-th interval
VisualSeqs(n) ==
    IF n = 0 THEN {<< >>}
    ELSE {Append(ops, o) : ops \in VisualSeqs(n - 1), o \in VisualOps(n)}

\* single-partition histories of up to MaxVisualOps operations
VisualHistories == UNION {VisualSeqs(n) : n \in 0..MaxVisualOps}

\* verbose checks, without timeout
InitVisual ==
    /\ \E ops \in VisualHistories : partitions = <<ops>>
    /\ computeInfo = TRUE
    /\ timeout = 0
    /\ events = << >>
    /\ history \in entriesOutcomes(partitions)
    /\ workers = [i \in 1..Len(history) |-> checkSingleInit(history[i], computeInfo)]
    /\ results = << >>
    /\ longest = [i \in 1..Len(history) |-> << >>]
    /\ kill = 0
    /\ timeoutChan = armTimeout(timeout)
    /\ dpc = "select"
    /\ ok = TRUE
    /\ timedOut = FALSE
    /\ count = 0
    /\ result = "none"
    /\ info = [history |-> << >>, partialLinearizations |-> << >>]
    /\ folded = {}

NextVisual ==
    \/ Complete
    \/ Accept
    \/ Skip
    \/ Exhausted
    \/ Backtrack
    \/ Store
    \/ Send
    \/ Receive
    \/ Finish
    \/ AddAnnotations
    \/ Visualize

\* verbose checks followed by the visualization of their info
SpecVisual == InitVisual /\ [][NextVisual]_vars

Visualized == dpc = "visualized"

\* C31: in the visualization data of every partition the partial
\* linearizations are in order of non-increasing length; every id that occurs
\* in some partial linearization has a Largest entry, which is the index of
\* the first partial linearization in that order containing the id, and that
\* one is of maximum length among those containing it; an id in no partial
\* linearization has no Largest entry.
C31_LargestIsFirstLongest ==
    Visualized =>
        \A p \in 1..Len(info.history) :
            LET pl == info.partialLinearizations[p]
                d == info.data[p]
                holding(id) == {k \in 1..Len(pl) : id \in Range(pl[k])}
            IN /\ \A j \in 1..Len(pl) : \A k \in 1..Len(pl) : j < k => Len(pl[j]) >= Len(pl[k])
               /\ Len(d.PartialLinearizations) = Len(pl)
               /\ \A k \in 1..Len(pl) :
                     /\ Len(d.PartialLinearizations[k]) = Len(pl[k])
                     /\ \A j \in 1..Len(pl[k]) : d.PartialLinearizations[k][j].Index = pl[k][j]
               /\ DOMAIN d.Largest = {id \in 0..(workers[p].n - 1) : holding(id) # {}}
               /\ \A id \in DOMAIN d.Largest :
                     /\ d.Largest[id] + 1 \in holding(id)
                     /\ \A k \in holding(id) :
                           /\ d.Largest[id] + 1 <= k
                           /\ Len(pl[d.Largest[id] + 1]) >= Len(pl[k])

\* a visualization of a partition with a longer and a shorter partial
\* linearization that share an operation, the shorter one being the largest
\* of some operation
C31_Witness ==
    /\ Visualized
    /\ \E p \in 1..Len(info.history) :
          LET pl == info.partialLinearizations[p]
          IN /\ Len(pl) = 2
             /\ Len(pl[1]) > Len(pl[2])
             /\ Range(pl[1]) \cap Range(pl[2]) # {}
             /\ \E id \in Range(pl[2]) : info.data[p].Largest[id] = 1

\* the timestamps below ts among those of the info
earlier(li, ts) == {t \in allTimestamps(li) : t < ts}

\* C32: timestampMapping is defined on exactly the timestamps of the entries
\* and annotations of the info; it maps the k-th smallest distinct timestamp
\* (k from 0) to k*100, so it is strictly monotonic and any two distinct
\* timestamps map to values at least 100 apart; the Start and End of every
\* history element of the visualization data are the mapped call and return
\* times.
C32_TimestampsRanked ==
    (dpc \in {"done", "annotated", "visualized"} /\ computeInfo) =>
        LET mapping == timestampMapping(info)
        IN /\ DOMAIN mapping = allTimestamps(info)
           /\ \A ts \in allTimestamps(info) : mapping[ts] = Cardinality(earlier(info, ts)) * 100
           /\ \A t \in allTimestamps(info) : \A u \in allTimestamps(info) :
                 t < u => mapping[u] - mapping[t] >= 100
           /\ Visualized =>
                 \A p \in 1..Len(info.history) : \A k \in 1..Len(info.history[p]) :
                     LET e == info.history[p][k]
                         h == info.data[p].History[e.id + 1]
                     IN IF e.kind = callEntry THEN h.Start = mapping[e.time]
                                              ELSE h.End = mapping[e.time]

\* a visualization of three operations with an annotation that starts before
\* every operation and ends after them: the timestamps have gaps and a
\* negative value, and the third operation's call at 4 is mapped to 500
C32_Witness ==
    /\ Visualized
    /\ Len(info.history[1]) = 6
    /\ \E a \in Range(info.annotations) : a.Start = -5 /\ a.End = 9
    /\ info.data[1].History[3].Start = 500
    /\ info.data[1].History[3].End = 600

\* ------------------------------------------------------------------ termination
\* a goroutine that can take a step takes one
SpecWideFair ==
    SpecWide /\ WF_vars(Complete \/ Accept \/ Skip \/ Exhausted \/ Backtrack \/ Store \/ Send)

\* the number of pairs appended to a cache
cacheSize(cache) ==
    Cardinality(UNION {{<<h, k>> : k \in 1..Len(cache[h])} : h \in DOMAIN cache})

\* the (linearized-set, state) pairs of a partition of n operations
pairSpace(n) == (SUBSET (0..(n - 1))) \X (0..MaxWideVal)

\* a step of the search of w to w2: it returns, or accepts a call and caches
\* one more pair, or moves the scan pointer one node to the right with stack
\* and cache as they were, or pops a frame with the cache as it was
searchStep(w, w2) ==
    \/ w2.pc # "loop" /\ cacheBuckets(w2.cache) = cacheBuckets(w.cache)
    \/ /\ w2.pc = "loop"
       /\ Len(w2.calls) = Len(w.calls) + 1
       /\ cacheSize(w2.cache) = cacheSize(w.cache) + 1
    \/ /\ w2.pc = "loop"
       /\ w2.calls = w.calls /\ w2.nodes = w.nodes
       /\ cacheBuckets(w2.cache) = cacheBuckets(w.cache)
       /\ w2.entry # NIL
       /\ posIn(listFrom(w.nodes, HEAD), w2.entry) = posIn(listFrom(w.nodes, HEAD), w.entry) + 1
    \/ /\ w2.pc = "loop"
       /\ Len(w.calls) >= 1 /\ w2.calls = Front(w.calls)
       /\ cacheBuckets(w2.cache) = cacheBuckets(w.cache)

searchSteps ==
    \A i \in 1..Len(workers) :
        (workers[i].pc = "loop" /\ workers'[i] # workers[i])
            => searchStep(workers[i], workers'[i])

\* the pairs appended to the cache are distinct pairs of the pair space
acceptsBounded ==
    \A i \in 1..Len(workers) :
        LET w == workers[i]
            pairs == {<<BitsOf(e.linearized), e.state>> : e \in cacheEntrySet(w.cache)}
        IN /\ cacheSize(w.cache) = Cardinality(pairs)
           /\ pairs \subseteq pairSpace(w.n)

\* C33: with the cancel flag never set, checkSingle returns for every
\* well-formed history: every step of the search returns, or accepts a call
\* (one more cached pair), or moves the scan pointer right, or pops a frame;
\* the accepted calls are as many as the cached pairs, which are distinct
\* (linearized-set, state) pairs; and every search eventually leaves its loop.
C33_SearchTerminates ==
    /\ [](kill = 0 /\ acceptsBounded)
    /\ [][searchSteps]_vars
    /\ <>(\A i \in 1..Len(workers) : workers[i].pc # "loop")

\* a search of four operations that returned false after accepting five calls
C33_Witness ==
    /\ workers[1].pc # "loop" /\ ~workers[1].ok
    /\ workers[1].n = 4
    /\ cacheSize(workers[1].cache) >= 5
    /\ kill = 0

\* a goroutine that can take a step takes one, the driver does not stay at a
\* select with a ready case, and an armed timer fires
SpecFair ==
    /\ Spec
    /\ WF_vars(Complete \/ Killed \/ Accept \/ Skip \/ Exhausted \/ Backtrack \/ Store \/ Send)
    /\ WF_vars(Receive \/ Timeout \/ Drain \/ Finish)

\* C34: checkParallel eventually returns, for every number of partitions
\* (zero included) and every timeout (0 included).
C34_DriverReturns == <>Done

\* the driver returns whenever there is a partition or a timeout
returnsUnlessEmpty == (Len(history) > 0 \/ timeout > 0) => <>Done

\* the goroutines that have sent their result
sentBy == {i \in 1..Len(workers) : workers[i].pc = "done"}

\* a result enters the channel only as the one send of a goroutine
sendSteps ==
    Len(results') > Len(results) =>
        \E i \in 1..Len(workers) :
            /\ workers[i].pc = "send" /\ workers'[i].pc = "done"
            /\ results' = Append(results, [from |-> i, ok |-> workers[i].ok])
            /\ \A j \in 1..Len(workers) : j # i => workers'[j] = workers[j]

\* C35: a goroutine that has reached its send can always send (the channel
\* never holds as many results as there are partitions at that point); every
\* result in the channel or received is the one send of a goroutine; and
\* every goroutine eventually has sent and ended, also when the driver has
\* returned without receiving its result.
C35_SendNeverBlocks ==
    /\ [](\A i \in 1..Len(workers) : workers[i].pc = "send" => ENABLED WorkerSend(i))
    /\ [](Len(results) + count = Cardinality(sentBy))
    /\ [][sendSteps]_vars
    /\ <>(\A i \in 1..Len(workers) : workers[i].pc = "done")

\* the driver has returned Illegal after one result; both goroutines have
\* ended and the result of the other is still in the channel
C35_Witness ==
    /\ Done /\ ~computeInfo /\ result = "Illegal"
    /\ Len(workers) = 2 /\ count = 1
    /\ Len(results) = 1
    /\ \A i \in 1..Len(workers) : workers[i].pc = "done"

\* ------------------------------------------------------------------ real-time closure
\* the positions of the call and the return entry of id in the entries
callAt(entries, id) == CHOOSE k \in 1..Len(entries) : entries[k].kind = callEntry /\ entries[k].id = id

returnAt(entries, id) == CHOOSE k \in 1..Len(entries) : entries[k].kind = returnEntry /\ entries[k].id = id

\* every operation whose return entry precedes the call entry of an
\* operation of seq is in seq at an earlier position
closedUnderPrecedence(entries, seq) ==
    \A k \in 1..Len(seq) :
        \A y \in 0..((Len(entries) \div 2) - 1) :
            returnAt(entries, y) < callAt(entries, seq[k])
                => \E j \in 1..(k - 1) : seq[j] = y

\* C36: at every point of every search the ids of the calls stack, in stack
\* order, are closed under real-time precedence with respect to the
\* partition's entry order; so is every sequence recorded in longest and
\* every partial linearization of a verbose result.
C36_StackClosed ==
    \A p \in 1..Len(workers) :
        /\ closedUnderPrecedence(history[p], callIds(workers[p]))
        /\ \A h \in 1..Len(workers[p].heap) : closedUnderPrecedence(history[p], workers[p].heap[h])
        /\ (Done /\ computeInfo) =>
              \A k \in 1..Len(info.partialLinearizations[p]) :
                  closedUnderPrecedence(info.history[p], info.partialLinearizations[p][k])

\* a search whose stack holds an operation above one that returned before it
\* was called, after a partial linearization with such a pair was recorded
C36_Witness ==
    \E p \in 1..Len(workers) :
        LET w == workers[p]
            ids == callIds(w)
            ordered(seq) == \E j \in 1..Len(seq) : \E k \in 1..Len(seq) :
                               j < k /\ returnAt(history[p], seq[j]) < callAt(history[p], seq[k])
        IN /\ w.pc = "loop"
           /\ ordered(ids)
           /\ \E h \in 1..Len(w.heap) : ordered(w.heap[h]) /\ w.heap[h] # ids

\* ------------------------------------------------------------------ the cache and the verdict
\* the backtracking search without the cache: a call is accepted whenever
\* Step accepts it
checkSingleStepNoCache(w) ==
    IF ~loopCond(w) THEN doComplete(w)
    ELSE IF atCall(w) THEN (IF stepAt(w).ok THEN doAccept(w) ELSE doSkip(w))
    ELSE IF Len(w.calls) = 0 THEN doExhausted(w)
    ELSE doBacktrack(w)

RECURSIVE checkSingleRunNoCache(_)
checkSingleRunNoCache(w) ==
    IF w.pc # "loop" THEN w ELSE checkSingleRunNoCache(checkSingleStepNoCache(w))

\* the state after the k-th frame of the stack was pushed
frameState(w, k) == IF k = Len(w.calls) THEN w.state ELSE w.calls[k + 1].state

\* the (set, state) pairs of the frames that are on the stack
framePairs(w) ==
    {<<Range(idsOfFrames(w, k)), frameState(w, k)>> : k \in 1..Len(w.calls)}

\* the cached pairs whose frame has been popped
poppedPairs(w) ==
    {<<BitsOf(e.linearized), e.state>> : e \in cacheEntrySet(w.cache)} \ framePairs(w)

\* no order of the operations outside b that respects real-time precedence
\* is accepted by Step from s
deadEnd(ops, b, s) ==
    ~\E q \in PermSeqs((1..Len(ops)) \ {id + 1 : id \in b}) :
        respectsRealTime(ops, q) /\ stepsFrom(ops, q, s)

\* C37: at every point of a search, every cached pair (b, s) whose frame has
\* been popped is a dead end; and the search returns what the same search
\* without the cache returns.
C37_PoppedPairsAreDeadEnds ==
    \A p \in 1..Len(workers) :
        /\ \A pair \in poppedPairs(workers[p]) : deadEnd(partitions[p], pair[1], pair[2])
        /\ workers[p].pc = "returned" =>
              workers[p].ok = checkSingleRunNoCache(checkSingleInit(history[p], computeInfo)).ok

\* a search of four operations about to skip a call that Step accepts,
\* because its pair was cached and its frame popped earlier
C37_Witness ==
    \E p \in 1..Len(workers) :
        LET w == workers[p]
            hit == <<BitsOf(newCacheEntry(w).linearized), newCacheEntry(w).state>>
        IN /\ w.pc = "loop" /\ loopCond(w) /\ atCall(w)
           /\ stepAt(w).ok
           /\ hit \in poppedPairs(w)
           /\ w.n = 4 /\ Cardinality(poppedPairs(w)) >= 2

\* ------------------------------------------------------------------ bitsets as slices
MaxBits == 130       \* the largest capacity of a bitset

\* a bitset is a slice: a reference to an array of words, which set and
\* clear change in place
\* mutant: the copy is the slice itself
bitsetCloneShared(arrays, ref) == [arrays |-> arrays, ref |-> ref]

\* clone(): a new array with the words copied
bitsetCloneAt(arrays, ref) ==
    [arrays |-> Append(arrays, bitsetClone(arrays[ref])), ref |-> Len(arrays) + 1]

bitsetSetAt(arrays, ref, pos) == [arrays EXCEPT ![ref] = bitsetSet(@, pos)]

bitsetClearAt(arrays, ref, pos) == [arrays EXCEPT ![ref] = bitsetClear(@, pos)]

\* the capacities tried: none, one bit, around one word, MaxBits
BitsetSizes == {0, 1, WordBits - 1, WordBits, WordBits + 1, MaxBits}

\* the positions tried for capacity n: the ends of the first word, the start
\* of the second, the last position
BitsetPositions(n) == {0, WordBits - 1, WordBits, n - 1} \cap (0..(n - 1))

\* b := newBitset(n)
InitBitset ==
    /\ \E n \in BitsetSizes :
          workers = <<[pc |-> "bitset", n |-> n, arrays |-> <<newBitset(n)>>,
                       original |-> 1, copy |-> NIL,
                       last |-> [op |-> "new", on |-> "original", ref |-> 1, pos |-> 0]]>>
    /\ partitions = << >>
    /\ events = << >>
    /\ history = << >>
    /\ computeInfo = FALSE
    /\ timeout = 0
    /\ timeoutChan = FALSE
    /\ results = << >>
    /\ longest = << >>
    /\ kill = 0
    /\ dpc = "bitset"
    /\ ok = TRUE
    /\ timedOut = FALSE
    /\ count = 0
    /\ result = "none"
    /\ info = [history |-> << >>, partialLinearizations |-> << >>]
    /\ folded = {}

\* the slices held: the original and, once made, its clone
bitsetHeld(w) == IF w.copy = NIL THEN {"original"} ELSE {"original", "copy"}

bitsetRef(w, on) == IF on = "original" THEN w.original ELSE w.copy

\* c := b.clone()
CloneBitset ==
    /\ workers[1].copy = NIL
    /\ LET r == bitsetCloneAt(workers[1].arrays, workers[1].original)
       IN workers' = [workers EXCEPT ![1].arrays = r.arrays, ![1].copy = r.ref,
                                     ![1].last = [op |-> "clone", on |-> "copy", ref |-> r.ref, pos |-> 0]]
    /\ UNCHANGED <<inputVars, workerVars>>

\* x.set(pos) for x the original or the clone
SetBit ==
    /\ \E on \in bitsetHeld(workers[1]) : \E pos \in BitsetPositions(workers[1].n) :
          LET ref == bitsetRef(workers[1], on)
          IN workers' = [workers EXCEPT
                            ![1].arrays = bitsetSetAt(@, ref, pos),
                            ![1].last = [op |-> "set", on |-> on, ref |-> ref, pos |-> pos]]
    /\ UNCHANGED <<inputVars, workerVars>>

\* x.clear(pos) for x the original or the clone
ClearBit ==
    /\ \E on \in bitsetHeld(workers[1]) : \E pos \in BitsetPositions(workers[1].n) :
          LET ref == bitsetRef(workers[1], on)
          IN workers' = [workers EXCEPT
                            ![1].arrays = bitsetClearAt(@, ref, pos),
                            ![1].last = [op |-> "clear", on |-> on, ref |-> ref, pos |-> pos]]
    /\ UNCHANGED <<inputVars, workerVars>>

NextBitset ==
    \/ CloneBitset
    \/ SetBit
    \/ ClearBit

SpecBitset == InitBitset /\ [][NextBitset]_vars

\* x.get(pos) for the slice x
getAt(w, x, pos) == bitsetGet(w.arrays[x], pos)

\* what a set or clear of w.last.pos on w.last.ref, leading from v to w, did:
\* the bit has the new value, every other bit of the slice is as it was, and
\* so is every bit of the other slice
bitStep(v, w) ==
    LET x == w.last.ref
        i == w.last.pos
    IN w.last.op \in {"set", "clear"} =>
          /\ getAt(w, x, i) = (w.last.op = "set")
          /\ \A j \in 0..(w.n - 1) : j # i => getAt(w, x, j) = getAt(v, x, j)
          /\ (w.copy # NIL /\ w.last.on = "copy") =>
                \A j \in 0..(w.n - 1) : getAt(w, w.original, j) = getAt(v, w.original, j)
          /\ (w.copy # NIL /\ w.last.on = "original") =>
                \A j \in 0..(w.n - 1) : getAt(w, w.copy, j) = getAt(v, w.copy, j)

bitSteps == workers'[1] # workers[1] => bitStep(workers[1], workers'[1])

\* C38: newBitset(n) has ceil(n/64) words and all bits clear; after set(i),
\* get(i) is true and after clear(i) it is false; set(i) and clear(i) leave
\* get(j) as it was for every j # i in [0, n); and a set or clear on a clone
\* leaves every bit of the original as it was, and the reverse.
C38_BitsetOperations ==
    /\ [](LET w == workers[1]
          IN /\ \A on \in bitsetHeld(w) :
                   Len(w.arrays[bitsetRef(w, on)]) = (w.n + WordBits - 1) \div WordBits
             /\ w.last.op = "new" => \A i \in 0..(w.n - 1) : ~getAt(w, w.original, i))
    /\ [][bitSteps]_vars

\* a bitset of three words and its clone: the last bit was just cleared in
\* the clone and is still set in the original, whose bit 64 is clear while
\* the clone's is set
C38_Witness ==
    LET w == workers[1]
    IN /\ dpc = "bitset" /\ w.n = MaxBits /\ w.copy # NIL
       /\ w.last.op = "clear" /\ w.last.on = "copy" /\ w.last.pos = MaxBits - 1
       /\ getAt(w, w.original, MaxBits - 1)
       /\ ~getAt(w, w.original, WordBits) /\ getAt(w, w.copy, WordBits)

====
